---- MODULE Spec2Model ----
(***************************************************************************)
(* Measurement validation, correction and reclassification engine.         *)
(*                                                                         *)
(* Lengths are Python floats in the source.  Here a length is an integer   *)
(* number of 1e-5 cm (U units per cm), which represents every product of   *)
(* an integer height with the ratio tables and the relationship factors    *)
(* (0.70, 0.90, 1.30, 0.80, 0.85, 0.75) exactly; arithmetic is the exact   *)
(* decimal arithmetic of the source expressions.                           *)
(***************************************************************************)
EXTENDS Integers, Sequences, FiniteSets, TLC

VARIABLES
    body_pc,                \* position of validate_body_measurements: "idle" | "ready" | "done"
    detected_measurements,  \* its argument: key -> value (Absent: key not in the dict)
    body_result,            \* what it computed and returned
    size_pc,                \* position of a _classify_clothing_size call
    size_args,              \* its arguments: chest, waist, hip, gender
    size_result,            \* the labels the two classifiers returned
    mv_pc,                  \* MeasurementValidator: "idle" | "ready" | "once" | "twice"
    mv_height,              \* MeasurementValidator.height, whole cm
    mv_measurements,        \* the dict given to validate_all_measurements
    mv_first,               \* what the call returned
    mv_second,              \* what a second call, on the first one's output, returned
    calls,                  \* calls made on the shared fitmatch_validator so far
    fm_pc,                  \* validate_and_reprocess_measurements: "idle" | "ready" | "loop" | "final" | "returned"
    raw_measurements,       \* the caller's dict
    clothing_type,          \* the caller's clothing type
    attempt,                \* the loop variable of `for attempt in range(1, max + 1)`
    rounds,                 \* loop bodies run so far in this call
    loop_exit,              \* how the loop ended: "none" | "no_errors" | "valid" | "exhausted"
    current_measurements,
    error_corrections,      \* self.error_corrections
    reprocessing_history,   \* self.reprocessing_history
    fm_result,              \* the dict returned
    fm_previous,            \* the outcome of the call before, held by a caller that repeats its job
    v_pc,                   \* validate_and_correct_measurements (VTON): where each call stands
    v_args,                 \* the arguments of each call
    v_local,                \* the locals of each call
    validation_notes,       \* self.validation_notes: the list object the field is bound to
    notes_heap,             \* the list objects: 0 from __init__, t from the reset of call t
    corrections_applied,    \* self.corrections_applied
    v_result,               \* the dict each call returned
    scan_pc,                \* a width scan: "idle" | "ready" | "right" | "left" | "head" | "finish" | "done" | "raised"
    scan_image,             \* image_front_silhouette: width, height and its background pixels
    scan_call,              \* the scan called and the points it is given
    scan_local,             \* the locals of the scan: current_x, current_distance, loop passes
    scan_globals,           \* the module globals the scans write: distances and x_perp marks
    scan_result,            \* what the scan returned, or the exception it raised
    scan_returned,          \* the scans that returned so far: call, image at the call, result
    h_pc,                   \* get_automatic_height: "idle" | "loop" | "median" | "done"
    h_methods,              \* what each of the four estimators does when called
    h_index,                \* the estimator the loop is at
    heights,                \* the list of accepted estimates
    h_return,               \* the value get_automatic_height returned
    mh_pc,                  \* measure_height: "idle" | "start" | "auto" | "manual" | "confirm" | "returned" | "raised"
    mh_mode,                \* MeasurementConfig.HEIGHT_MODE
    stdin,                  \* the lines input() will read, and what it does when none is left
    mh_return,              \* the value measure_height returned
    job_queue,              \* queue_manager.job_queue: the jobs waiting, oldest first
    next_job,               \* the number of jobs the routes have created
    accepted,               \* the jobs a route answered with 202
    started,                \* the worker threads that were started
    w_pc,                   \* each worker: "stopped" | "loop" | "get" | "got" | "process" | "running" | "import"
    w_job,                  \* the job each worker took from the queue
    processed,              \* the pairs <<job_id, worker>> passed to a process function
    status_log              \* the status updates written for each job, in order

bodyVars == <<body_pc, detected_measurements, body_result>>
sizeVars == <<size_pc, size_args, size_result>>
mvVars == <<mv_pc, mv_height, mv_measurements, mv_first, mv_second>>
fmVars == <<calls, fm_pc, raw_measurements, clothing_type, attempt, rounds, loop_exit,
            current_measurements, error_corrections, reprocessing_history, fm_result,
            fm_previous>>
vtonVars == <<v_pc, v_args, v_local, validation_notes, notes_heap, corrections_applied,
              v_result>>
scanVars == <<scan_pc, scan_image, scan_call, scan_local, scan_globals, scan_result,
              scan_returned>>
heightVars == <<h_pc, h_methods, h_index, heights, h_return, mh_pc, mh_mode, stdin,
                mh_return>>
queueVars == <<job_queue, next_job, accepted, started, w_pc, w_job, processed, status_log>>
vars == <<body_pc, detected_measurements, body_result, size_pc, size_args, size_result,
          mv_pc, mv_height, mv_measurements, mv_first, mv_second,
          calls, fm_pc, raw_measurements, clothing_type, attempt, rounds, loop_exit,
          current_measurements, error_corrections, reprocessing_history, fm_result,
          fm_previous,
          v_pc, v_args, v_local, validation_notes, notes_heap, corrections_applied,
          v_result,
          scan_pc, scan_image, scan_call, scan_local, scan_globals, scan_result,
          scan_returned,
          h_pc, h_methods, h_index, heights, h_return, mh_pc, mh_mode, stdin, mh_return,
          job_queue, next_job, accepted, started, w_pc, w_job, processed, status_log>>

\* ------------------------------------------------------------------ numbers

U == 1000 * 100
HalfCm == U \div 2
Absent == 0 - 1

Min2(a, b) == IF a <= b THEN a ELSE b
Max2(a, b) == IF a >= b THEN a ELSE b
Abs(a) == IF a >= 0 THEN a ELSE 0 - a

\* f"{value:.1f}": the value in tenths of a cm, rounded to nearest, a tie to even.
Format1(v) ==
    LET tenth == U \div 10
        q == v \div tenth
        r == v % tenth
    IN  IF 2 * r > tenth THEN q + 1
        ELSE IF 2 * r < tenth THEN q
        ELSE IF q % 2 = 0 THEN q ELSE q + 1

\* ------------------------------------------------ body_correction.py: tables

\* (min_ratio, max_ratio) of height, in percent.
height_ratios ==
    [ head_circumference  |-> <<33, 38>>,
      neck_circumference  |-> <<20, 25>>,
      chest_circumference |-> <<50, 65>>,
      waist_circumference |-> <<38, 50>>,
      hip_circumference   |-> <<45, 60>>,
      arm_length          |-> <<32, 36>>,
      leg_length          |-> <<44, 52>>,
      foot_length         |-> <<14, 16>>,
      shoulder_breadth    |-> <<22, 28>> ]

absolute_ranges ==
    [ wrist_circumference_female |-> <<13, 17>>,
      wrist_circumference_male   |-> <<15, 20>> ]

SizeOrder8 == <<"XS", "S", "M", "L", "XL", "XXL", "XXXL", "XXXXL">>

ABV_female_sizes ==
    [ XS    |-> [chest |-> <<76, 83>>,   waist |-> <<60, 67>>,   hip |-> <<84, 91>>],
      S     |-> [chest |-> <<84, 92>>,   waist |-> <<68, 75>>,   hip |-> <<92, 99>>],
      M     |-> [chest |-> <<93, 101>>,  waist |-> <<76, 83>>,   hip |-> <<100, 107>>],
      L     |-> [chest |-> <<102, 110>>, waist |-> <<84, 91>>,   hip |-> <<108, 115>>],
      XL    |-> [chest |-> <<111, 119>>, waist |-> <<92, 99>>,   hip |-> <<116, 123>>],
      XXL   |-> [chest |-> <<120, 128>>, waist |-> <<100, 107>>, hip |-> <<124, 131>>],
      XXXL  |-> [chest |-> <<129, 137>>, waist |-> <<108, 115>>, hip |-> <<132, 139>>],
      XXXXL |-> [chest |-> <<138, 999>>, waist |-> <<116, 999>>, hip |-> <<140, 999>>] ]

ABV_male_sizes ==
    [ XS    |-> [chest |-> <<86, 91>>,   waist |-> <<71, 76>>,   hip |-> <<86, 91>>],
      S     |-> [chest |-> <<91, 96>>,   waist |-> <<76, 81>>,   hip |-> <<91, 96>>],
      M     |-> [chest |-> <<96, 101>>,  waist |-> <<81, 86>>,   hip |-> <<96, 101>>],
      L     |-> [chest |-> <<101, 106>>, waist |-> <<86, 91>>,   hip |-> <<101, 106>>],
      XL    |-> [chest |-> <<106, 111>>, waist |-> <<91, 96>>,   hip |-> <<106, 111>>],
      XXL   |-> [chest |-> <<111, 116>>, waist |-> <<96, 101>>,  hip |-> <<111, 116>>],
      XXXL  |-> [chest |-> <<116, 121>>, waist |-> <<101, 106>>, hip |-> <<116, 121>>],
      XXXXL |-> [chest |-> <<121, 999>>, waist |-> <<106, 999>>, hip |-> <<121, 999>>] ]

\* ------------------------------------------- body_correction.py: operations

clamp_to_range(value, min_val, max_val) == Max2(min_val, Min2(value, max_val))

\* measurements.get(key): None when the key is missing.
Get(m, key) == IF key \in DOMAIN m THEN m[key] ELSE Absent

\* measurements.get(key, 0)
GetOr0(m, key) == IF key \in DOMAIN m /\ m[key] # Absent THEN m[key] ELSE 0

\* whr < 0.82, as 50 * waist < 41 * hip
detect_gender(m) ==
    LET waist == GetOr0(m, "waist_circumference_cm")
        hip   == GetOr0(m, "hips_circumference_cm")
    IN  IF waist > 0 /\ hip > 0
        THEN (IF 50 * waist < 41 * hip THEN "female" ELSE "male")
        ELSE "female"

\* height * ratio, height in whole cm and the ratio in percent
RatioOf(height, pct) == height * pct * (U \div 100)

MidpointAtMin(height, pair) == height * pair[1] * (U \div 100)

\* height * ((min_ratio + max_ratio) / 2)
Midpoint(height, pair) == height * (pair[1] + pair[2]) * (U \div 200)

\* Weights are in 1e-5 kg: 22 * (height / 100) ** 2
estimated_weight(height) == 220 * height * height

process_weight(detected_weight, height) ==
    IF detected_weight = Absent \/ detected_weight <= 0
    THEN [value |-> estimated_weight(height), source |-> "estimated"]
    ELSE IF 160 * height * height <= detected_weight
            /\ detected_weight <= 320 * height * height
         THEN [value |-> detected_weight, source |-> "original"]
         ELSE [value |-> (6 * detected_weight + 4 * estimated_weight(height)) \div 10,
               source |-> "corrected"]

\* `min_val <= detected_value <= max_val`
InBandStrict(value, min_val, max_val) == min_val < value /\ value < max_val
InBand(value, min_val, max_val) == min_val <= value /\ value <= max_val

process_measurement_with_height_ratio(detected_value, height, ratio_key) ==
    LET known     == ratio_key \in DOMAIN height_ratios
        min_val   == RatioOf(height, height_ratios[ratio_key][1])
        max_val   == RatioOf(height, height_ratios[ratio_key][2])
        estimated == IF known THEN Midpoint(height, height_ratios[ratio_key])
                              ELSE height * (U \div 2)
    IN  IF detected_value = Absent \/ detected_value <= 0
        THEN [value |-> estimated, source |-> "estimated"]
        ELSE IF known
             THEN IF InBand(detected_value, min_val, max_val)
                  THEN [value |-> detected_value, source |-> "original"]
                  ELSE [value |-> clamp_to_range(detected_value, min_val, max_val),
                        source |-> "corrected"]
             ELSE [value |-> detected_value, source |-> "original"]

\* abs(final - detected) < 1.0
WithinTolerance(final, detected) == Abs(final - detected) < U

process_waist_measurement(detected_waist, height, chest_value) ==
    LET pair          == height_ratios["waist_circumference"]
        min_val       == RatioOf(height, pair[1])
        max_val       == RatioOf(height, pair[2])
        clamped_waist == clamp_to_range(detected_waist, min_val, max_val)
        final_waist   == clamp_to_range(clamped_waist,
                                        (chest_value * 7) \div 10,
                                        (chest_value * 9) \div 10)
    IN  IF detected_waist = Absent \/ detected_waist <= 0
        THEN [value |-> Midpoint(height, pair), source |-> "estimated"]
        ELSE IF WithinTolerance(final_waist, detected_waist)
             THEN [value |-> detected_waist, source |-> "original"]
             ELSE [value |-> final_waist, source |-> "corrected"]

process_hip_measurement(detected_hip, height, waist_value) ==
    LET pair        == height_ratios["hip_circumference"]
        min_val     == RatioOf(height, pair[1])
        max_val     == RatioOf(height, pair[2])
        clamped_hip == clamp_to_range(detected_hip, min_val, max_val)
        final_hip   == clamp_to_range(clamped_hip,
                                      waist_value,
                                      (waist_value * 13) \div 10)
    IN  IF detected_hip = Absent \/ detected_hip <= 0
        THEN [value |-> Midpoint(height, pair), source |-> "estimated"]
        ELSE IF WithinTolerance(final_hip, detected_hip)
             THEN [value |-> detected_hip, source |-> "original"]
             ELSE [value |-> final_hip, source |-> "corrected"]

process_wrist_measurement(detected_wrist, gender) ==
    LET pair    == IF gender = "female"
                   THEN absolute_ranges["wrist_circumference_female"]
                   ELSE absolute_ranges["wrist_circumference_male"]
        min_val == pair[1] * U
        max_val == pair[2] * U
    IN  IF detected_wrist = Absent \/ detected_wrist <= 0
        THEN [value |-> (pair[1] + pair[2]) * HalfCm, source |-> "estimated"]
        ELSE IF min_val <= detected_wrist /\ detected_wrist <= max_val
             THEN [value |-> detected_wrist, source |-> "original"]
             ELSE [value |-> clamp_to_range(detected_wrist, min_val, max_val),
                   source |-> "corrected"]

process_all_measurements(m, height, gender) ==
    LET chest == process_measurement_with_height_ratio(
                     Get(m, "chest_circumference_cm"), height, "chest_circumference")
        waist == process_waist_measurement(
                     Get(m, "waist_circumference_cm"), height, chest.value)
        hip   == process_hip_measurement(
                     Get(m, "hips_circumference_cm"), height, waist.value)
    IN  [ height |-> [value |-> height * U, source |-> "original"],
          weight |-> process_weight(Get(m, "weight"), height),
          head_circumference_cm |-> process_measurement_with_height_ratio(
              Get(m, "head_circumference_cm"), height, "head_circumference"),
          neck_circumference_cm |-> process_measurement_with_height_ratio(
              Get(m, "neck_circumference_cm"), height, "neck_circumference"),
          chest_circumference_cm |-> chest,
          waist_circumference_cm |-> waist,
          hips_circumference_cm  |-> hip,
          arm_length_cm |-> process_measurement_with_height_ratio(
              Get(m, "arm_length_cm"), height, "arm_length"),
          leg_length_cm |-> process_measurement_with_height_ratio(
              Get(m, "leg_length_cm"), height, "leg_length"),
          foot_length_cm |-> process_measurement_with_height_ratio(
              Get(m, "foot_length_cm"), height, "foot_length"),
          wrist_circumference_cm |-> process_wrist_measurement(
              Get(m, "wrist_circumference_cm"), gender),
          shoulder_breadth_cm |-> process_measurement_with_height_ratio(
              Get(m, "shoulder_breadth_cm"), height, "shoulder_breadth") ]

CountSource(corrected_data, src) ==
    Cardinality({k \in DOMAIN corrected_data : corrected_data[k].source = src})

calculate_confidence_score_floor60(corrected_data) ==
    LET total == Cardinality(DOMAIN corrected_data)
        sum   == CountSource(corrected_data, "original") * 100
                 + CountSource(corrected_data, "corrected") * 70
                 + CountSource(corrected_data, "estimated") * 40
    IN  [num |-> Min2(100 * total, Max2(60 * total, sum)), den |-> total]

\* The mean as the fraction num/den; min(100, max(0, .)) applied to it.
calculate_confidence_score(corrected_data) ==
    LET total == Cardinality(DOMAIN corrected_data)
        sum   == CountSource(corrected_data, "original") * 100
                 + CountSource(corrected_data, "corrected") * 70
                 + CountSource(corrected_data, "estimated") * 40
    IN  [num |-> Min2(100 * total, Max2(0, sum)), den |-> total]

\* ------------------------------------------------ size classification loops

\* float('inf')
Infinity == 2000000000

\* chart bounds are whole cm
calculate_range_distance_abv(value, range_tuple) ==
    LET min_val == range_tuple[1] * U
        max_val == range_tuple[2] * U
    IN  IF min_val <= value /\ value <= max_val THEN 0
        ELSE IF value < min_val THEN min_val - value
        ELSE IF range_tuple[2] # 999 THEN value - max_val ELSE 0

\* total_distance * 20: (chest * 0.4) + (waist * 0.35) + (hip * 0.25)
WeightedDistance(chest_d, waist_d, hip_d) == 8 * chest_d + 7 * waist_d + 5 * hip_d

ImprovesOrTies(total_distance, min_distance) == total_distance <= min_distance

\* `if total_distance < min_distance`
Improves(total_distance, min_distance) == total_distance < min_distance

\* `for size, ranges in size_chart.items()`: the dict's insertion order
RECURSIVE ScanChart(_, _, _, _)
ScanChart(order, total, i, best) ==
    IF i > Len(order) THEN best
    ELSE ScanChart(order, total, i + 1,
                   IF Improves(total[order[i]], best.min_distance)
                   THEN [best_size |-> order[i], min_distance |-> total[order[i]]]
                   ELSE best)

ABV_Ceiling == 15

ABV_TotalDistance(chest, waist, hip, gender) ==
    LET size_ranges == IF gender = "female" THEN ABV_female_sizes ELSE ABV_male_sizes
    IN  [size \in DOMAIN size_ranges |->
            WeightedDistance(
                calculate_range_distance_abv(chest, size_ranges[size].chest),
                calculate_range_distance_abv(waist, size_ranges[size].waist),
                calculate_range_distance_abv(hip, size_ranges[size].hip))]

ABV_classify_clothing_size(chest, waist, hip, gender) ==
    LET best == ScanChart(SizeOrder8, ABV_TotalDistance(chest, waist, hip, gender), 1,
                          [best_size |-> "Unknown", min_distance |-> Infinity])
    IN  IF best.min_distance < ABV_Ceiling * 20 * U THEN best.best_size ELSE "Unknown"

\* f"{confidence:.1f}" of the fraction num/den, in tenths
FormatFrac(c) ==
    LET q == (c.num * 10) \div c.den
        r == (c.num * 10) % c.den
    IN  IF 2 * r > c.den THEN q + 1
        ELSE IF 2 * r < c.den THEN q
        ELSE IF q % 2 = 0 THEN q ELSE q + 1

format_final_output(corrected_data, clothing_size, confidence) ==
    [ measurements |-> [k \in DOMAIN corrected_data |->
                           [value  |-> Format1(corrected_data[k].value),
                            source |-> corrected_data[k].source]],
      clothing_size    |-> clothing_size,
      confidence_score |-> FormatFrac(confidence) ]

validate_and_correct_measurements(m) ==
    LET gender         == detect_gender(m)
        height         == m["height"]
        corrected_data == process_all_measurements(m, height, gender)
        confidence     == calculate_confidence_score(corrected_data)
        clothing_size  == ABV_classify_clothing_size(
                              corrected_data["chest_circumference_cm"].value,
                              corrected_data["waist_circumference_cm"].value,
                              corrected_data["hips_circumference_cm"].value,
                              gender)
    IN  [ gender         |-> gender,
          corrected_data |-> corrected_data,
          confidence     |-> confidence,
          clothing_size  |-> clothing_size,
          final_result   |-> format_final_output(corrected_data, clothing_size, confidence) ]

\* ----------------------------------------------- body validator: the inputs

Heights == {90, 165, 220}

\* a fraction of the height, in permille, plus an offset in half centimetres
AtHeight(height, permille, halves) == height * permille * (U \div 1000) + halves * HalfCm

ChestInputs(height) ==
    {Absent} \cup {AtHeight(height, p, 0) : p \in {400, 500, 575, 650, 700}}

WaistInputs(height) ==
    {Absent} \cup {AtHeight(height, p, d) : p \in {300, 380, 440, 480, 500, 560}, d \in {0, 1}}

HipInputs(height) ==
    {Absent} \cup {AtHeight(height, p, d) : p \in {400, 450, 480, 525, 600, 700}, d \in {0 - 1, 0, 1}}

RatioKeyOf ==
    [ head_circumference_cm |-> "head_circumference",
      neck_circumference_cm |-> "neck_circumference",
      arm_length_cm         |-> "arm_length",
      leg_length_cm         |-> "leg_length",
      foot_length_cm        |-> "foot_length",
      shoulder_breadth_cm   |-> "shoulder_breadth" ]

OtherKeys == DOMAIN RatioKeyOf \cup {"weight", "wrist_circumference_cm"}

OtherInputs(key, height) ==
    IF key = "weight"
    THEN {150 * height * height, 240 * height * height, 350 * height * height}
    ELSE IF key = "wrist_circumference_cm"
    THEN {12 * U, 14 * U, 16 * U, 18 * U, 21 * U}
    ELSE LET pair == height_ratios[RatioKeyOf[key]]
         IN  { RatioOf(height, pair[1]) - HalfCm, RatioOf(height, pair[1]),
               Midpoint(height, pair),
               RatioOf(height, pair[2]), RatioOf(height, pair[2]) + HalfCm }

BodyKeys == {"height", "chest_circumference_cm", "waist_circumference_cm",
             "hips_circumference_cm"} \cup OtherKeys

NoResult == [done |-> FALSE]

IdleBody == body_pc = "idle" /\ detected_measurements = NoResult /\ body_result = NoResult
IdleSize == size_pc = "idle" /\ size_args = NoResult /\ size_result = NoResult
IdleFM ==
    /\ calls = 0 /\ fm_pc = "idle" /\ raw_measurements = NoResult /\ clothing_type = ""
    /\ attempt = 0 /\ rounds = 0 /\ loop_exit = "none"
    /\ current_measurements = NoResult
    /\ error_corrections = <<>> /\ reprocessing_history = <<>> /\ fm_result = NoResult
    /\ fm_previous = NoResult

\* the calls that may run on the shared vton_validator
Calls == {1, 2}

IdleVton ==
    /\ v_pc = [t \in Calls |-> "idle"]
    /\ v_args = [t \in Calls |-> NoResult]
    /\ v_local = [t \in Calls |-> NoResult]
    /\ validation_notes = 0
    /\ notes_heap = [r \in {0} \cup Calls |-> <<>>]
    /\ corrections_applied = 0
    /\ v_result = [t \in Calls |-> NoResult]

IdleScan ==
    /\ scan_pc = "idle" /\ scan_image = NoResult /\ scan_call = NoResult
    /\ scan_local = NoResult /\ scan_globals = NoResult /\ scan_result = NoResult
    /\ scan_returned = <<>>

IdleHeight ==
    /\ h_pc = "idle" /\ h_methods = <<>> /\ h_index = 0 /\ heights = <<>>
    /\ h_return = NoResult
    /\ mh_pc = "idle" /\ mh_mode = "" /\ stdin = NoResult /\ mh_return = NoResult

IdleQueue ==
    /\ job_queue = <<>> /\ next_job = 0 /\ accepted = {} /\ started = {}
    /\ w_pc = NoResult /\ w_job = NoResult /\ processed = {} /\ status_log = NoResult

IdleMV ==
    /\ mv_pc = "idle" /\ mv_height = 0 /\ mv_measurements = NoResult
    /\ mv_first = NoResult /\ mv_second = NoResult

\* The caller's dict: height, the three related circumferences, and at most one
\* of the other measurements detected.
InitBody ==
    /\ IdleSize /\ IdleMV /\ IdleFM /\ IdleVton /\ IdleScan /\ IdleHeight /\ IdleQueue
    /\ body_pc = "ready"
    /\ body_result = NoResult
    /\ \E height \in Heights :
       \E chest \in ChestInputs(height), waist \in WaistInputs(height),
          hip \in HipInputs(height) :
       \E other \in OtherKeys \cup {"none"} :
       \E v \in (IF other = "none" THEN {Absent} ELSE OtherInputs(other, height)) :
          detected_measurements =
              [k \in BodyKeys |->
                  CASE k = "height" -> height
                    [] k = "chest_circumference_cm" -> chest
                    [] k = "waist_circumference_cm" -> waist
                    [] k = "hips_circumference_cm"  -> hip
                    [] k = other -> v
                    [] OTHER -> Absent]

\* validate_body_measurements(detected_measurements)
ValidateBody ==
    /\ body_pc = "ready"
    /\ body_result' = validate_and_correct_measurements(detected_measurements)
    /\ body_pc' = "done"
    /\ UNCHANGED <<detected_measurements, sizeVars, mvVars, fmVars, vtonVars, scanVars, heightVars,
                   queueVars>>

NextBody == ValidateBody

SpecBody == InitBody /\ [][NextBody]_vars

\* ------------------------------------------------ body validator: the claims

BodyDone == body_pc = "done"

AllRawMissing == \A k \in BodyKeys \ {"height"} : detected_measurements[k] = Absent

\* corrected_data key -> its key in the ratio table
BandKeyOf ==
    [k \in DOMAIN RatioKeyOf \cup {"chest_circumference_cm", "waist_circumference_cm",
                                   "hips_circumference_cm"} |->
        CASE k = "chest_circumference_cm" -> "chest_circumference"
          [] k = "waist_circumference_cm" -> "waist_circumference"
          [] k = "hips_circumference_cm"  -> "hip_circumference"
          [] OTHER -> RatioKeyOf[k]]

BandLow(k)  == detected_measurements["height"] * height_ratios[BandKeyOf[k]][1] * (U \div 100)
BandHigh(k) == detected_measurements["height"] * height_ratios[BandKeyOf[k]][2] * (U \div 100)

InOwnBand(k) ==
    /\ detected_measurements[k] # Absent
    /\ BandLow(k) <= detected_measurements[k]
    /\ detected_measurements[k] <= BandHigh(k)

KeptOriginal(k) ==
    /\ body_result.corrected_data[k].source = "original"
    /\ body_result.corrected_data[k].value = detected_measurements[k]

\* C2: the returned body measurements satisfy waist < chest and waist < hip (strictly).
C2_WaistBelowChestAndHip ==
    BodyDone =>
        LET out == body_result.final_result.measurements
        IN  /\ out["waist_circumference_cm"].value < out["chest_circumference_cm"].value
            /\ out["waist_circumference_cm"].value < out["hips_circumference_cm"].value

\* C3 as stated: with no raw measurements every entry of corrected_data is
\* 'estimated' and equals height x the midpoint of its ratio-table band.
C3_EveryEntryEstimated ==
    (BodyDone /\ AllRawMissing) =>
        \A k \in DOMAIN body_result.corrected_data :
            body_result.corrected_data[k].source = "estimated"

\* C3 amended: with no raw measurements the height entry is 'original' and holds the
\* height, every other entry is 'estimated'; each ratio-table measurement equals
\* height x (min_ratio + max_ratio) / 2, the weight is 22 x (height/100)^2 and the
\* wrist is the midpoint 15 cm of the female absolute range.
C3_EstimatesAtMidpoint ==
    (BodyDone /\ AllRawMissing) =>
        LET cd == body_result.corrected_data
            h  == detected_measurements["height"]
        IN  /\ cd["height"] = [value |-> h * U, source |-> "original"]
            /\ \A k \in DOMAIN cd \ {"height"} : cd[k].source = "estimated"
            /\ \A k \in DOMAIN BandKeyOf : 2 * cd[k].value = BandLow(k) + BandHigh(k)
            /\ cd["weight"].value = 22 * h * h * (U \div 10000)
            /\ cd["wrist_circumference_cm"].value = 15 * U

C3_Witness ==
    /\ BodyDone /\ AllRawMissing
    /\ detected_measurements["height"] = 220
    /\ body_result.corrected_data["leg_length_cm"].value = 220 * 48 * (U \div 100)

\* C4 as stated: every measurement inside its own height band, waist and hip
\* included, is returned unchanged with source 'original'.
C4_InBandKeptOriginal ==
    BodyDone => \A k \in DOMAIN BandKeyOf : InOwnBand(k) => KeptOriginal(k)

\* C4 amended: every measurement other than waist and hip that lies inside its own
\* height band is returned unchanged with source 'original', whatever the others
\* are; a waist (hip) inside its band is returned unchanged as 'original' exactly
\* when it is less than 1 cm from its clamp to [0.70, 0.90] x chest ([1.00, 1.30] x
\* waist), and is otherwise replaced by that clamp with source 'corrected'.
C4_InBandKeptUnlessRelated ==
    BodyDone =>
        LET cd    == body_result.corrected_data
            chest == cd["chest_circumference_cm"].value
            waist == cd["waist_circumference_cm"].value
            w     == detected_measurements["waist_circumference_cm"]
            hp    == detected_measurements["hips_circumference_cm"]
            wRel  == Max2((chest * 7) \div 10, Min2(w, (chest * 9) \div 10))
            hRel  == Max2(waist, Min2(hp, (waist * 13) \div 10))
        IN  /\ \A k \in DOMAIN BandKeyOf \ {"waist_circumference_cm", "hips_circumference_cm"} :
                  InOwnBand(k) => KeptOriginal(k)
            /\ InOwnBand("waist_circumference_cm") =>
                  IF Abs(wRel - w) < U
                  THEN KeptOriginal("waist_circumference_cm")
                  ELSE cd["waist_circumference_cm"] = [value |-> wRel, source |-> "corrected"]
            /\ InOwnBand("hips_circumference_cm") =>
                  IF Abs(hRel - hp) < U
                  THEN KeptOriginal("hips_circumference_cm")
                  ELSE cd["hips_circumference_cm"] = [value |-> hRel, source |-> "corrected"]

C4_Witness ==
    /\ BodyDone
    /\ InOwnBand("chest_circumference_cm") /\ KeptOriginal("chest_circumference_cm")
    /\ InOwnBand("waist_circumference_cm")
    /\ body_result.corrected_data["waist_circumference_cm"].source = "corrected"
    /\ InOwnBand("neck_circumference_cm") /\ KeptOriginal("neck_circumference_cm")

SourceScore(source) ==
    CASE source = "original" -> 100 [] source = "corrected" -> 70 [] source = "estimated" -> 40

RECURSIVE SumScores(_, _)
SumScores(cd, keys) ==
    IF keys = {} THEN 0
    ELSE LET k == CHOOSE x \in keys : TRUE
         IN  SourceScore(cd[k].source) + SumScores(cd, keys \ {k})

\* C7 as stated: the score is the mean of the per-entry scores floored at 60, and
\* is exactly 60 for height 165 with every raw measurement missing.
C7_MeanFlooredAt60 ==
    BodyDone =>
        LET cd == body_result.corrected_data
            c  == body_result.confidence
        IN  /\ c.num = Max2(60 * c.den, SumScores(cd, DOMAIN cd))
            /\ (detected_measurements["height"] = 165 /\ AllRawMissing) => c.num = 60 * c.den

\* C7 amended: the score is the arithmetic mean of the per-entry scores (original
\* 100, corrected 70, estimated 40) over all twelve entries, the always-original
\* height entry included, with no floor at 60; for height 165 with every raw
\* measurement missing it is exactly 45.
C7_MeanOverAllEntries ==
    BodyDone =>
        LET cd == body_result.corrected_data
            c  == body_result.confidence
        IN  /\ c.den = Cardinality(DOMAIN cd)
            /\ c.den = 12
            /\ c.num = SumScores(cd, DOMAIN cd)
            /\ (detected_measurements["height"] = 165 /\ AllRawMissing) => c.num = 45 * c.den

C7_Witness ==
    /\ BodyDone
    /\ detected_measurements["height"] = 165 /\ AllRawMissing
    /\ body_result.confidence = [num |-> 540, den |-> 12]
    /\ body_result.final_result.confidence_score = 450

\* --------------------------------------- vton_measurement_validator.py: sizes

SizeOrder6 == <<"XS", "S", "M", "L", "XL", "XXL">>

VTON_female_sizes ==
    [ XS  |-> [chest |-> <<76, 82>>,   waist |-> <<60, 66>>, hip |-> <<84, 90>>],
      S   |-> [chest |-> <<83, 87>>,   waist |-> <<67, 71>>, hip |-> <<91, 95>>],
      M   |-> [chest |-> <<88, 92>>,   waist |-> <<72, 76>>, hip |-> <<96, 100>>],
      L   |-> [chest |-> <<93, 97>>,   waist |-> <<77, 81>>, hip |-> <<101, 105>>],
      XL  |-> [chest |-> <<98, 102>>,  waist |-> <<82, 86>>, hip |-> <<106, 110>>],
      XXL |-> [chest |-> <<103, 107>>, waist |-> <<87, 91>>, hip |-> <<111, 115>>] ]

VTON_male_sizes ==
    [ XS  |-> [chest |-> <<86, 91>>,   waist |-> <<71, 76>>,  hip |-> <<86, 91>>],
      S   |-> [chest |-> <<91, 96>>,   waist |-> <<76, 81>>,  hip |-> <<91, 96>>],
      M   |-> [chest |-> <<96, 101>>,  waist |-> <<81, 86>>,  hip |-> <<96, 101>>],
      L   |-> [chest |-> <<101, 106>>, waist |-> <<86, 91>>,  hip |-> <<101, 106>>],
      XL  |-> [chest |-> <<106, 111>>, waist |-> <<91, 96>>,  hip |-> <<106, 111>>],
      XXL |-> [chest |-> <<111, 116>>, waist |-> <<96, 101>>, hip |-> <<111, 116>>] ]

calculate_range_distance_vton(value, range_tuple) ==
    LET min_val == range_tuple[1] * U
        max_val == range_tuple[2] * U
    IN  IF min_val <= value /\ value <= max_val THEN 0
        ELSE IF value < min_val THEN min_val - value
        ELSE value - max_val

VTON_Ceiling == 10

VTON_TotalDistance(chest, waist, hips, gender) ==
    LET size_chart == IF gender = "female" THEN VTON_female_sizes ELSE VTON_male_sizes
    IN  [size \in DOMAIN size_chart |->
            WeightedDistance(
                calculate_range_distance_vton(chest, size_chart[size].chest),
                calculate_range_distance_vton(waist, size_chart[size].waist),
                calculate_range_distance_vton(hips, size_chart[size].hip))]

\* a Python value that is falsy: None or 0
Falsy(v) == v = Absent \/ v = 0

VTON_classify_clothing_size(chest, waist, hips, gender) ==
    IF Falsy(chest) \/ Falsy(waist) \/ Falsy(hips) THEN "Unknown"
    ELSE LET best == ScanChart(SizeOrder6, VTON_TotalDistance(chest, waist, hips, gender), 1,
                               [best_size |-> "M", min_distance |-> Infinity])
         IN  IF best.min_distance < VTON_Ceiling * 20 * U THEN best.best_size ELSE "Unknown"

\* --------------------------------------------- size classifiers: the inputs

\* whole and half centimetres from lo to hi cm
HalfSteps(lo, hi) == {n * HalfCm : n \in (2 * lo)..(2 * hi)}

SizeChestInputs == HalfSteps(82, 93) \cup {x * U : x \in {0, 40, 51, 60, 107, 120, 150}}
                       \cup {77 * HalfCm}
SizeWaistInputs == HalfSteps(66, 77) \cup {x * U : x \in {0, 30, 91, 110, 130}}
SizeHipInputs   == HalfSteps(90, 97) \cup {x * U : x \in {0, 50, 115, 140}}

InitSize ==
    /\ IdleBody /\ IdleMV /\ IdleFM /\ IdleVton /\ IdleScan /\ IdleHeight /\ IdleQueue
    /\ size_pc = "ready"
    /\ size_result = NoResult
    /\ \E chest \in SizeChestInputs, waist \in SizeWaistInputs, hip \in SizeHipInputs,
          gender \in {"female", "male"} :
          size_args = [chest |-> chest, waist |-> waist, hip |-> hip, gender |-> gender]

\* one call of each classifier on the same values
ClassifySize ==
    /\ size_pc = "ready"
    /\ size_result' =
          [ abv  |-> ABV_classify_clothing_size(size_args.chest, size_args.waist,
                                                size_args.hip, size_args.gender),
            vton |-> VTON_classify_clothing_size(size_args.chest, size_args.waist,
                                                 size_args.hip, size_args.gender) ]
    /\ size_pc' = "done"
    /\ UNCHANGED <<size_args, bodyVars, mvVars, fmVars, vtonVars, scanVars, heightVars, queueVars>>

NextSize == ClassifySize

SpecSize == InitSize /\ [][NextSize]_vars

\* ---------------------------------------------- size classifiers: the claims

SizeDone == size_pc = "done"

ABV_Dist  == ABV_TotalDistance(size_args.chest, size_args.waist, size_args.hip, size_args.gender)
VTON_Dist == VTON_TotalDistance(size_args.chest, size_args.waist, size_args.hip, size_args.gender)

IndexIn(order, label) == CHOOSE i \in 1..Len(order) : order[i] = label

\* label is the first label of order whose distance is the least of the chart
FirstOfLeast(order, dist, label) ==
    /\ \E i \in 1..Len(order) : order[i] = label
    /\ \A j \in 1..Len(order) : dist[label] <= dist[order[j]]
    /\ \A j \in 1..(IndexIn(order, label) - 1) : dist[order[j]] > dist[label]

NA == 0 - 2

IsNumber(value) == value # Absent /\ value # NA

\* MeasurementValidator.ratios, in percent of the height
ratios ==
    [ head_circumference      |-> <<31, 37>>,
      neck_circumference      |-> <<20, 25>>,
      chest_circumference     |-> <<50, 65>>,
      waist_circumference     |-> <<38, 50>>,
      hip_circumference       |-> <<50, 65>>,
      shoulder_breadth        |-> <<23, 28>>,
      arm_length              |-> <<43, 47>>,
      upper_arm_circumference |-> <<15, 22>>,
      forearm_circumference   |-> <<13, 18>>,
      wrist_circumference     |-> <<9, 11>>,
      thigh_circumference     |-> <<28, 38>>,
      calf_circumference      |-> <<19, 25>>,
      ankle_circumference     |-> <<12, 15>>,
      inseam                  |-> <<43, 47>>,
      foot_length             |-> <<14, 16>>,
      foot_width              |-> <<5, 7>> ]

\* mapping.get(measurement_name, None); "" stands for None
get_validation_key(measurement_name) ==
    CASE measurement_name = "Head Circumference"          -> "head_circumference"
      [] measurement_name = "Neck Circumference"          -> "neck_circumference"
      [] measurement_name = "Chest Circumference"         -> "chest_circumference"
      [] measurement_name = "Waist Circumference"         -> "waist_circumference"
      [] measurement_name = "Hip Circumference"           -> "hip_circumference"
      [] measurement_name = "Shoulder Breadth"            -> "shoulder_breadth"
      [] measurement_name = "Right Arm Length"            -> "arm_length"
      [] measurement_name = "Right Bicep Circumference"   -> "upper_arm_circumference"
      [] measurement_name = "Right Forearm Circumference" -> "forearm_circumference"
      [] measurement_name = "Right Wrist Circumference"   -> "wrist_circumference"
      [] measurement_name = "Left Thigh Circumference"    -> "thigh_circumference"
      [] measurement_name = "Left Calf Circumference"     -> "calf_circumference"
      [] measurement_name = "Left Ankle Circumference"    -> "ankle_circumference"
      [] measurement_name = "Inside Leg Height"           -> "inseam"
      [] measurement_name = "Right Foot Length"           -> "foot_length"
      [] measurement_name = "Right Foot Width"            -> "foot_width"
      [] OTHER -> ""

validate_measurement_clamping(height, measurement_name, value) ==
    IF measurement_name \in DOMAIN ratios
    THEN LET min_val == RatioOf(height, ratios[measurement_name][1])
             max_val == RatioOf(height, ratios[measurement_name][2])
         IN  IF min_val <= value /\ value <= max_val
             THEN [is_valid |-> TRUE, value |-> value]
             ELSE [is_valid |-> FALSE, value |-> Max2(min_val, Min2(value, max_val))]
    ELSE [is_valid |-> TRUE, value |-> value]

\* returns (is_valid, corrected): corrected = self.height * (min_ratio + max_ratio) / 2
validate_measurement(height, measurement_name, value) ==
    IF measurement_name \in DOMAIN ratios
    THEN LET min_val == RatioOf(height, ratios[measurement_name][1])
             max_val == RatioOf(height, ratios[measurement_name][2])
         IN  IF min_val <= value /\ value <= max_val
             THEN [is_valid |-> TRUE, value |-> value]
             ELSE [is_valid |-> FALSE,
                   value |-> height * (ratios[measurement_name][1] + ratios[measurement_name][2])
                             * (U \div 200)]
    ELSE [is_valid |-> TRUE, value |-> value]

\* the loop of validate_all_measurements: the dict `corrected` before the
\* relationship pass (a key that is not in the input is not in it either)
ValidateEach(height, measurements) ==
    [key \in DOMAIN measurements |->
        IF IsNumber(measurements[key]) /\ get_validation_key(key) # ""
        THEN validate_measurement(height, get_validation_key(key), measurements[key]).value
        ELSE measurements[key]]

\* the keys the loop appended a line for to corrections_made
CorrectionsMade(height, measurements) ==
    {key \in DOMAIN measurements :
        /\ IsNumber(measurements[key])
        /\ get_validation_key(key) # ""
        /\ ~validate_measurement(height, get_validation_key(key), measurements[key]).is_valid}

Has(measurements, key) == key \in DOMAIN measurements /\ measurements[key] # Absent

\* `waist / hip if hip > 0 else 0` raises TypeError when it compares or divides "N/A"
WaistHipRaises(m) ==
    /\ Has(m, "Waist Circumference") /\ Has(m, "Hip Circumference")
    /\ \/ m["Hip Circumference"] = NA
       \/ (m["Hip Circumference"] > 0 /\ m["Waist Circumference"] = NA)

\* not (0.65 <= waist / hip <= 0.95), the ratio being 0 when hip <= 0
WaistHipOff(waist, hip) ==
    IF hip > 0 THEN ~(13 * hip <= 20 * waist /\ 20 * waist <= 19 * hip) ELSE TRUE

AfterWaistHip(m) ==
    IF /\ Has(m, "Waist Circumference") /\ Has(m, "Hip Circumference")
       /\ WaistHipOff(m["Waist Circumference"], m["Hip Circumference"])
    THEN [m EXCEPT !["Waist Circumference"] = (m["Hip Circumference"] * 4) \div 5]
    ELSE m

ChestWaistRaises(m) ==
    /\ Has(m, "Chest Circumference") /\ Has(m, "Waist Circumference")
    /\ \/ m["Waist Circumference"] = NA
       \/ (m["Waist Circumference"] > 0 /\ m["Chest Circumference"] = NA)

\* not (1.15 <= chest / waist <= 1.45), the ratio being 0 when waist <= 0
ChestWaistOff(chest, waist) ==
    IF waist > 0 THEN ~(23 * waist <= 20 * chest /\ 20 * chest <= 29 * waist) ELSE TRUE

AfterChestWaist(m) ==
    IF /\ Has(m, "Chest Circumference") /\ Has(m, "Waist Circumference")
       /\ ChestWaistOff(m["Chest Circumference"], m["Waist Circumference"])
    THEN [m EXCEPT !["Chest Circumference"] = (m["Waist Circumference"] * 13) \div 10]
    ELSE m

\* the relationship pass with the chest rule ahead of the waist rule
validate_relationships_chest_first(m) ==
    IF ChestWaistRaises(m) THEN [raised |-> TRUE]
    ELSE IF WaistHipRaises(AfterChestWaist(m)) THEN [raised |-> TRUE]
    ELSE [raised |-> FALSE, measurements |-> AfterWaistHip(AfterChestWaist(m))]

\* lines 106-124: the waist against the hip, then the chest against the waist
validate_relationships(m) ==
    IF WaistHipRaises(m) THEN [raised |-> TRUE]
    ELSE IF ChestWaistRaises(AfterWaistHip(m)) THEN [raised |-> TRUE]
    ELSE [raised |-> FALSE, measurements |-> AfterChestWaist(AfterWaistHip(m))]

validate_all_measurements(height, measurements) ==
    LET each == ValidateEach(height, measurements)
        rel  == validate_relationships(each)
    IN  IF rel.raised
        THEN [raised |-> TRUE, each |-> each]
        ELSE [raised |-> FALSE, each |-> each,
              corrections_made |-> CorrectionsMade(height, measurements),
              corrected |-> rel.measurements]

\* ----------------------------------------- MeasurementValidator: the inputs

MVHeights == {90, 170, 220}

MVKeys == {"Chest Circumference", "Waist Circumference", "Hip Circumference",
           "Neck Circumference", "Height"}

MVInputs(key, height) ==
    CASE key = "Chest Circumference" ->
             {Absent, NA} \cup {AtHeight(height, p, 0) : p \in {450, 500, 575, 650, 700}}
      [] key = "Waist Circumference" ->
             {Absent, NA} \cup {AtHeight(height, p, 0) : p \in {300, 380, 440, 500, 560}}
      [] key = "Hip Circumference" ->
             {Absent, NA} \cup {AtHeight(height, p, 0) : p \in {0, 450, 500, 575, 650, 700}}
      [] key = "Neck Circumference" ->
             {Absent, NA} \cup {AtHeight(height, p, 0) : p \in {150, 225, 300}}
      [] key = "Height" -> {Absent, height * U}

InitMV ==
    /\ IdleBody /\ IdleSize /\ IdleFM /\ IdleVton /\ IdleScan /\ IdleHeight /\ IdleQueue
    /\ mv_pc = "ready"
    /\ mv_first = NoResult /\ mv_second = NoResult
    /\ mv_height \in MVHeights
    /\ \E chest \in MVInputs("Chest Circumference", mv_height),
          waist \in MVInputs("Waist Circumference", mv_height),
          hip   \in MVInputs("Hip Circumference", mv_height),
          neck  \in MVInputs("Neck Circumference", mv_height),
          h     \in MVInputs("Height", mv_height) :
          mv_measurements =
              [k \in MVKeys |->
                  CASE k = "Chest Circumference" -> chest
                    [] k = "Waist Circumference" -> waist
                    [] k = "Hip Circumference"   -> hip
                    [] k = "Neck Circumference"  -> neck
                    [] k = "Height" -> h]

\* validator.validate_all_measurements(measurements)
ValidateAll ==
    /\ mv_pc = "ready"
    /\ mv_first' = validate_all_measurements(mv_height, mv_measurements)
    /\ mv_pc' = "once"
    /\ UNCHANGED <<mv_height, mv_measurements, mv_second, bodyVars, sizeVars, fmVars, vtonVars, scanVars, heightVars,
                   queueVars>>

\* the same validator applied to the dict the first call returned
ValidateAgain ==
    /\ mv_pc = "once"
    /\ ~mv_first.raised
    /\ mv_second' = validate_all_measurements(mv_height, mv_first.corrected)
    /\ mv_pc' = "twice"
    /\ UNCHANGED <<mv_height, mv_measurements, mv_first, bodyVars, sizeVars, fmVars, vtonVars, scanVars, heightVars,
                   queueVars>>

NextMV == ValidateAll \/ ValidateAgain

SpecMV == InitMV /\ [][NextMV]_vars

\* ----------------------------------------- MeasurementValidator: the claims

MVLow(key)  == mv_height * ratios[get_validation_key(key)][1] * (U \div 100)
MVHigh(key) == mv_height * ratios[get_validation_key(key)][2] * (U \div 100)

MVOutside(key) ==
    /\ get_validation_key(key) # ""
    /\ IsNumber(mv_measurements[key])
    /\ (mv_measurements[key] < MVLow(key) \/ mv_measurements[key] > MVHigh(key))

\* C5 as stated: a present value outside its band is corrected to the nearer of
\* the two band bounds.
C5_ClampsToNearerBound ==
    mv_pc = "once" =>
        \A key \in MVKeys :
            MVOutside(key) =>
                mv_first.each[key] = (IF mv_measurements[key] < MVLow(key)
                                      THEN MVLow(key) ELSE MVHigh(key))

\* C5 amended: a present value outside its band is corrected to the midpoint of the
\* band, height x (min_ratio + max_ratio) / 2, whichever side it lies on.
C5_ReplacesByMidpoint ==
    mv_pc = "once" =>
        \A key \in MVKeys :
            MVOutside(key) => 2 * mv_first.each[key] = MVLow(key) + MVHigh(key)

C5_Witness ==
    /\ mv_pc = "once"
    /\ ~mv_first.raised
    /\ mv_height = 170
    /\ MVOutside("Hip Circumference")
    /\ mv_measurements["Hip Circumference"] = AtHeight(170, 700, 0)
    /\ mv_first.each["Hip Circumference"] = AtHeight(170, 575, 0)
    /\ MVOutside("Neck Circumference")
    /\ mv_measurements["Neck Circumference"] < MVLow("Neck Circumference")

\* C6: validate_all_measurements applied to its own output returns that output
\* unchanged.
C6_Idempotent ==
    (mv_pc = "twice" /\ ~mv_second.raised) => mv_second.corrected = mv_first.corrected

\* ------------------------------------- FitMatchClothingMeasurementValidator

FITMATCH_CLOTHING_STANDARDS ==
    [ top |->
        [ S   |-> [chest |-> <<84, 92>>,   waist |-> <<66, 74>>,  shoulder |-> <<35, 39>>, length |-> <<58, 68>>],
          M   |-> [chest |-> <<92, 100>>,  waist |-> <<74, 82>>,  shoulder |-> <<38, 42>>, length |-> <<62, 72>>],
          L   |-> [chest |-> <<100, 108>>, waist |-> <<82, 90>>,  shoulder |-> <<40, 44>>, length |-> <<66, 76>>],
          XL  |-> [chest |-> <<108, 116>>, waist |-> <<90, 98>>,  shoulder |-> <<42, 46>>, length |-> <<70, 80>>],
          XXL |-> [chest |-> <<116, 124>>, waist |-> <<98, 106>>, shoulder |-> <<44, 48>>, length |-> <<74, 84>>] ],
      bottom |->
        [ S   |-> [waist |-> <<66, 74>>,  hip |-> <<92, 100>>,  inseam |-> <<70, 75>>, length |-> <<95, 105>>],
          M   |-> [waist |-> <<74, 82>>,  hip |-> <<100, 108>>, inseam |-> <<73, 78>>, length |-> <<97, 107>>],
          L   |-> [waist |-> <<82, 90>>,  hip |-> <<108, 116>>, inseam |-> <<76, 81>>, length |-> <<99, 109>>],
          XL  |-> [waist |-> <<90, 98>>,  hip |-> <<116, 124>>, inseam |-> <<79, 84>>, length |-> <<101, 111>>],
          XXL |-> [waist |-> <<98, 106>>, hip |-> <<124, 132>>, inseam |-> <<81, 86>>, length |-> <<103, 113>>] ] ]

\* the order in which `standards.items()` yields the sizes
SizeOrder5 == <<"S", "M", "L", "XL", "XXL">>

max_reprocessing_attempts == 3

\* `for attempt in range(1, self.max_reprocessing_attempts + 1)` admits one attempt
\* too many: the loop bound a reader might take from "max + 1".
InRangeInclusive(a) == 1 <= a /\ a <= max_reprocessing_attempts + 1

\* `attempt in range(1, self.max_reprocessing_attempts + 1)`
InRange(a) == 1 <= a /\ a < max_reprocessing_attempts + 1

\* _get_size_from_measurement: the first size whose range holds the value, otherwise
\* the first size whose range centre is nearest; "" stands for None.
RECURSIVE FirstContaining(_, _, _, _)
FirstContaining(measurement_type, value, standards, i) ==
    IF i > Len(SizeOrder5) THEN ""
    ELSE LET ranges == standards[SizeOrder5[i]]
         IN  IF /\ measurement_type \in DOMAIN ranges
                /\ ranges[measurement_type][1] * U <= value
                /\ value <= ranges[measurement_type][2] * U
             THEN SizeOrder5[i]
             ELSE FirstContaining(measurement_type, value, standards, i + 1)

\* the closest-centre scan; distances are doubled, |2 * value - (min + max)|
RECURSIVE ClosestCentre(_, _, _, _, _)
ClosestCentre(measurement_type, value, standards, i, best) ==
    IF i > Len(SizeOrder5) THEN best.closest_size
    ELSE LET ranges == standards[SizeOrder5[i]]
             distance == Abs(2 * value
                             - (ranges[measurement_type][1] + ranges[measurement_type][2]) * U)
         IN  IF measurement_type \in DOMAIN ranges /\ distance < best.min_distance
             THEN ClosestCentre(measurement_type, value, standards, i + 1,
                                [closest_size |-> SizeOrder5[i], min_distance |-> distance])
             ELSE ClosestCentre(measurement_type, value, standards, i + 1, best)

get_size_from_measurement(measurement_type, value, standards) ==
    IF value <= 0 THEN ""
    ELSE LET hit == FirstContaining(measurement_type, value, standards, 1)
         IN  IF hit # "" THEN hit
             ELSE ClosestCentre(measurement_type, value, standards, 1,
                                [closest_size |-> "", min_distance |-> Infinity])

\* the messages _detect_measurement_errors appends, without the figures it formats in
ErrDiscrepancy == "Major size discrepancy detected"
ErrRatio       == "Unrealistic waist-to-chest ratio"
ErrChestRange  == "Chest measurement outside human range"
ErrLength      == "Length measurement unrealistic"
ErrShoulder    == "Shoulder width unrealistic"
ErrScaling     == "Potential scaling error"

\* the elements of a sequence, each kept when its condition holds
Keep(cond, x) == IF cond THEN <<x>> ELSE <<>>

\* _detect_measurement_errors
detect_measurement_errors(measurements, ctype) ==
    IF ctype \notin DOMAIN FITMATCH_CLOTHING_STANDARDS THEN <<>>
    ELSE
    LET standards == FITMATCH_CLOTHING_STANDARDS[ctype]
        chest    == GetOr0(measurements, "Chest Circumference")
        waist    == GetOr0(measurements, "Waist Circumference")
        shoulder == GetOr0(measurements, "Shoulder Width")
        length   == GetOr0(measurements, "Total Length")
        chest_size    == get_size_from_measurement("chest", chest, standards)
        waist_size    == get_size_from_measurement("waist", waist, standards)
        shoulder_size == get_size_from_measurement("shoulder", shoulder, standards)
        length_size   == get_size_from_measurement("length", length, standards)
        size_suggestions == {chest_size, waist_size, shoulder_size, length_size} \ {""}
    IN  Keep(Cardinality(size_suggestions) > 2, ErrDiscrepancy)
        \o Keep(chest > 0 /\ waist > 0
                /\ (20 * waist < 13 * chest \/ 20 * waist > 19 * chest), ErrRatio)
        \o Keep(chest > 0 /\ (chest < 70 * U \/ chest > 140 * U), ErrChestRange)
        \o Keep(length > 0 /\ (length < 50 * U \/ length > 100 * U), ErrLength)
        \o Keep(shoulder > 0 /\ (shoulder < 30 * U \/ shoulder > 60 * U), ErrShoulder)
        \o Keep(/\ chest > 0 /\ waist > 0 /\ shoulder > 0
                /\ chest_size = waist_size /\ waist_size = shoulder_size
                /\ chest_size \in {"S", "XXL"}
                /\ \/ chest_size = "S" /\ chest > 80 * U
                   \/ chest_size = "XXL" /\ chest < 110 * U, ErrScaling)

\* (min + max) / 2 of a chart range, a whole number of cm for every range of the chart
RangeCentre(pair) == (pair[1] + pair[2]) * (U \div 2)

\* _fix_size_discrepancy: waist and shoulder are set to the centres of the ranges of
\* the size the chest suggests
fix_size_discrepancy(measurements, ctype) ==
    LET chest      == GetOr0(measurements, "Chest Circumference")
        standards  == FITMATCH_CLOTHING_STANDARDS[ctype]
        chest_size == get_size_from_measurement("chest", chest, standards)
    IN  IF chest > 0 /\ chest_size # ""
        THEN LET size_ranges == standards[chest_size]
                 w == IF "waist" \in DOMAIN size_ranges
                      THEN [measurements EXCEPT !["Waist Circumference"] =
                                RangeCentre(size_ranges["waist"])]
                      ELSE measurements
             IN  IF "shoulder" \in DOMAIN size_ranges
                 THEN [w EXCEPT !["Shoulder Width"] = RangeCentre(size_ranges["shoulder"])]
                 ELSE w
        ELSE measurements

\* _fix_waist_chest_ratio: chest * 0.75 below 0.65, chest * 0.85 above 0.95
fix_waist_chest_ratio(measurements) ==
    LET chest == GetOr0(measurements, "Chest Circumference")
        waist == GetOr0(measurements, "Waist Circumference")
    IN  IF chest > 0 /\ waist > 0
        THEN IF 20 * waist < 13 * chest
             THEN [measurements EXCEPT !["Waist Circumference"] = (chest * 3) \div 4]
             ELSE IF 20 * waist > 19 * chest
             THEN [measurements EXCEPT !["Waist Circumference"] = (chest * 17) \div 20]
             ELSE measurements
        ELSE measurements

\* one measurement of _fix_human_range_violations
IntoHumanRange(value, low, high, low_fix, high_fix) ==
    IF value > 0 /\ value < low * U THEN low_fix * U
    ELSE IF value > 0 /\ value > high * U THEN high_fix * U
    ELSE value

\* _fix_human_range_violations
fix_human_range_violations(measurements, ctype) ==
    [measurements EXCEPT
        !["Chest Circumference"] = IntoHumanRange(@, 70, 140, 75, 130),
        !["Shoulder Width"]      = IntoHumanRange(@, 30, 60, 35, 55),
        !["Total Length"]        = IntoHumanRange(@, 50, 100, 55, 90)]

ScaledKeys == {"Chest Circumference", "Waist Circumference", "Shoulder Width", "Total Length"}

\* _fix_scaling_errors: x 1.15 when 70 < chest < 80, x 0.90 when 120 < chest < 140
fix_scaling_errors(measurements, ctype) ==
    LET chest == GetOr0(measurements, "Chest Circumference")
        Scale(num, den) ==
            [k \in DOMAIN measurements |->
                IF k \in ScaledKeys /\ measurements[k] > 0
                THEN (measurements[k] * num) \div den ELSE measurements[k]]
    IN  IF chest > 0 /\ chest < 80 * U /\ chest > 70 * U THEN Scale(23, 20)
        ELSE IF chest > 0 /\ chest > 120 * U /\ chest < 140 * U THEN Scale(9, 10)
        ELSE measurements

\* `phrase in error.lower()` for the four phrases _apply_error_corrections looks for
Mentions(error, phrase) ==
    <<error, phrase>> \in { <<ErrDiscrepancy, "size discrepancy">>,
                           <<ErrRatio, "waist-to-chest ratio">>,
                           <<ErrChestRange, "outside human range">>,
                           <<ErrScaling, "scaling error">> }

\* _apply_error_corrections: the errors in order, each on the result of the one
\* before; st carries the corrected dict and self.error_corrections
RECURSIVE apply_error_corrections(_, _, _, _)
apply_error_corrections(st, errors, ctype, i) ==
    IF i > Len(errors) THEN st
    ELSE LET error == errors[i]
             next ==
               IF Mentions(error, "size discrepancy")
               THEN [corrected |-> fix_size_discrepancy(st.corrected, ctype),
                     error_corrections |-> Append(st.error_corrections,
                         "Fixed size discrepancy by adjusting measurement proportions")]
               ELSE IF Mentions(error, "waist-to-chest ratio")
               THEN [corrected |-> fix_waist_chest_ratio(st.corrected),
                     error_corrections |-> Append(st.error_corrections,
                         "Fixed waist-to-chest ratio to realistic proportions")]
               ELSE IF Mentions(error, "outside human range")
               THEN [corrected |-> fix_human_range_violations(st.corrected, ctype),
                     error_corrections |-> Append(st.error_corrections,
                         "Corrected measurements to human-realistic ranges")]
               ELSE IF Mentions(error, "scaling error")
               THEN [corrected |-> fix_scaling_errors(st.corrected, ctype),
                     error_corrections |-> Append(st.error_corrections,
                         "Fixed scaling error in measurements")]
               ELSE st
         IN  apply_error_corrections(next, errors, ctype, i + 1)

\* _validate_corrections
validate_corrections(measurements, ctype) ==
    LET remaining_errors == detect_measurement_errors(measurements, ctype)
    IN  [is_valid |-> remaining_errors = <<>>, issues |-> remaining_errors]

\* self.error_corrections[-n:], n >= 1: the last n entries, all of them when fewer
LastN(s, n) == IF n >= Len(s) THEN s ELSE SubSeq(s, Len(s) - n + 1, Len(s))

\* measurement type -> key of the measurements dict
measurement_key ==
    [ chest |-> "Chest Circumference", waist |-> "Waist Circumference",
      hip |-> "Hip Circumference", shoulder |-> "Shoulder Width",
      length |-> "Total Length", inseam |-> "Inseam Length" ]

\* measurement_weights, in hundredths, in the order the dict is written
measurement_weights(ctype) ==
    IF ctype = "top"
    THEN << <<"chest", 50>>, <<"waist", 25>>, <<"shoulder", 15>>, <<"length", 10>> >>
    ELSE << <<"waist", 40>>, <<"hip", 35>>, <<"inseam", 25>> >>

\* fit_score in thousandths of a point: 100 inside the range, otherwise
\* max(50, 100 - gap / bound * 100); gap in 1e-5 cm over bound in cm is the penalty
\* in thousandths
fit_score(value, min_val, max_val) ==
    IF min_val * U <= value /\ value <= max_val * U THEN 100 * 1000
    ELSE IF value < min_val * U
         THEN Max2(50 * 1000, 100 * 1000 - (min_val * U - value) \div min_val)
         ELSE Max2(50 * 1000, 100 * 1000 - (value - max_val * U) \div max_val)

\* score and weight_sum of one size
RECURSIVE SizeScore(_, _, _, _, _)
SizeScore(measurements, ranges, weights, i, acc) ==
    IF i > Len(weights) THEN acc
    ELSE LET measurement_type == weights[i][1]
             weight == weights[i][2]
             value  == Get(measurements, measurement_key[measurement_type])
         IN  IF value > 0 /\ measurement_type \in DOMAIN ranges
             THEN SizeScore(measurements, ranges, weights, i + 1,
                            [score |-> acc.score
                                       + fit_score(value, ranges[measurement_type][1],
                                                   ranges[measurement_type][2]) * weight,
                             weight_sum |-> acc.weight_sum + weight])
             ELSE SizeScore(measurements, ranges, weights, i + 1, acc)

\* size_scores[size]: score / weight_sum, 0 when nothing was weighed; the weights that
\* count are the same for every size, so the scores compare as their numerators
size_scores(measurements, ctype, size) ==
    SizeScore(measurements, FITMATCH_CLOTHING_STANDARDS[ctype][size],
              measurement_weights(ctype), 1, [score |-> 0, weight_sum |-> 0]).score

\* max(size_scores.keys(), key=size_scores.get): the first size of the greatest score
RECURSIVE BestSize(_, _, _, _)
BestSize(measurements, ctype, i, best) ==
    IF i > Len(SizeOrder5) THEN best
    ELSE IF size_scores(measurements, ctype, SizeOrder5[i])
            > size_scores(measurements, ctype, best)
         THEN BestSize(measurements, ctype, i + 1, SizeOrder5[i])
         ELSE BestSize(measurements, ctype, i + 1, best)

\* the first size of the chart, which the scoring returns when nothing is weighed,
\* taken for the size returned without a chart
FirstChartSize == "S"

\* the size _determine_final_size_with_confidence returns without a chart
DefaultSize == "M"

\* _determine_final_size_with_confidence
determine_final_size_with_confidence(measurements, ctype) ==
    IF ctype \notin DOMAIN FITMATCH_CLOTHING_STANDARDS THEN DefaultSize
    ELSE BestSize(measurements, ctype, 2, SizeOrder5[1])

\* one line of the fit analysis: nothing for a value that is not positive
FitLine(value, pair, within, below, above) ==
    IF value <= 0 THEN <<>>
    ELSE IF pair[1] * U <= value /\ value <= pair[2] * U THEN <<within>>
    ELSE IF value < pair[1] * U THEN <<below>>
    ELSE <<above>>

\* _generate_fitmatch_fit_analysis: no line at all for a type that is neither 'top'
\* nor 'bottom'
generate_fitmatch_fit_analysis(measurements, detected_size, ctype) ==
    IF ctype = "top" THEN
        LET ranges == FITMATCH_CLOTHING_STANDARDS[ctype][detected_size]
        IN  FitLine(GetOr0(measurements, "Chest Circumference"), ranges["chest"],
                    "Chest: Perfect fit", "Chest: Loose fit", "Chest: Snug fit")
            \o FitLine(GetOr0(measurements, "Shoulder Width"), ranges["shoulder"],
                    "Shoulders: Perfect fit", "Shoulders: Loose fit", "Shoulders: Snug fit")
            \o FitLine(GetOr0(measurements, "Total Length"), ranges["length"],
                    "Length: Ideal", "Length: Short", "Length: Long")
    ELSE IF ctype = "bottom" THEN
        LET ranges == FITMATCH_CLOTHING_STANDARDS[ctype][detected_size]
        IN  FitLine(GetOr0(measurements, "Waist Circumference"), ranges["waist"],
                    "Waist: Perfect fit", "Waist: Loose fit", "Waist: Snug fit")
            \o FitLine(GetOr0(measurements, "Hip Circumference"), ranges["hip"],
                    "Hips: Perfect fit", "Hips: Loose fit", "Hips: Snug fit")
            \o FitLine(GetOr0(measurements, "Inseam Length"), ranges["inseam"],
                    "Inseam: Perfect length", "Inseam: Short", "Inseam: Long")
    ELSE <<>>

\* ---------------------------------- validate_and_reprocess_measurements: runs

FMKeys == {"Chest Circumference", "Waist Circumference", "Shoulder Width",
           "Total Length", "Hip Circumference", "Inseam Length"}

ClothingTypes == {"top", "bottom", "dress", "outerwear"}

\* a measurements dict; Absent marks a key the dict does not hold
Garment(chest, waist, shoulder, length, hip, inseam) ==
    [k \in FMKeys |->
        CASE k = "Chest Circumference" -> chest
          [] k = "Waist Circumference" -> waist
          [] k = "Shoulder Width"      -> shoulder
          [] k = "Total Length"        -> length
          [] k = "Hip Circumference"   -> hip
          [] OTHER                     -> inseam]

Cm(values) == {IF v = Absent THEN Absent ELSE v * U : v \in values}

FMChestInputs    == Cm({Absent, 60, 75, 88, 96, 120, 150})
FMWaistInputs    == Cm({Absent, 50, 70, 78, 94, 102, 120})
FMShoulderInputs == Cm({Absent, 25, 37, 45, 65})
FMLengthInputs   == Cm({Absent, 40, 63, 78, 120})
FMLowerInputs    == {<<Absent, Absent>>, <<104 * U, 77 * U>>}

\* the calls that may follow the first on the shared validator: a top that is S on
\* every measurement, a top that is M on every measurement, a top whose waist is too
\* wide for its chest, and a dress
LaterCalls ==
    { <<Garment(88 * U, 70 * U, 37 * U, 63 * U, Absent, Absent), "top">>,
      <<Garment(96 * U, 78 * U, 40 * U, 66 * U, Absent, Absent), "top">>,
      <<Garment(96 * U, 94 * U, 40 * U, 66 * U, Absent, Absent), "top">>,
      <<Garment(150 * U, 50 * U, 25 * U, 120 * U, Absent, Absent), "dress">> }

\* calls made on the validator in one run
MaxCalls == 2

\* self.error_corrections = [] and self.reprocessing_history = [] left out: the list
\* of the call before stays
StaleList(old) == old

\* self.error_corrections = [], self.reprocessing_history = []
FreshList(old) == <<>>

InitFit ==
    /\ IdleBody /\ IdleSize /\ IdleMV /\ IdleVton /\ IdleScan /\ IdleHeight /\ IdleQueue
    /\ calls = 1
    /\ fm_pc = "ready"
    /\ clothing_type \in ClothingTypes
    /\ \E chest \in FMChestInputs, waist \in FMWaistInputs,
          shoulder \in FMShoulderInputs, length \in FMLengthInputs,
          lower \in FMLowerInputs :
          raw_measurements = Garment(chest, waist, shoulder, length, lower[1], lower[2])
    /\ attempt = 0 /\ rounds = 0 /\ loop_exit = "none"
    /\ current_measurements = NoResult
    /\ error_corrections = <<>> /\ reprocessing_history = <<>>
    /\ fm_result = NoResult
    /\ fm_previous = NoResult

\* the attempt number the loop starts from kept across calls
first_attempt_carried(n) == n

\* range(1, self.max_reprocessing_attempts + 1) starts every call at attempt 1
first_attempt(n) == 1

\* lines 85-88: the two lists are emptied and the raw dict is copied
Start ==
    /\ fm_pc = "ready"
    /\ error_corrections' = FreshList(error_corrections)
    /\ reprocessing_history' = FreshList(reprocessing_history)
    /\ current_measurements' = raw_measurements
    /\ attempt' = first_attempt(calls)
    /\ rounds' = 0
    /\ loop_exit' = "none"
    /\ fm_pc' = "loop"
    /\ UNCHANGED <<calls, raw_measurements, clothing_type, fm_result, fm_previous,
                   bodyVars, sizeVars, mvVars, vtonVars, scanVars, heightVars, queueVars>>

\* one pass of the loop body, lines 90-124
Attempt ==
    /\ fm_pc = "loop"
    /\ InRange(attempt)
    /\ rounds' = rounds + 1
    /\ LET errors_detected == detect_measurement_errors(current_measurements, clothing_type)
           st == apply_error_corrections(
                     [corrected |-> current_measurements,
                      error_corrections |-> error_corrections],
                     errors_detected, clothing_type, 1)
           validation_result == validate_corrections(st.corrected, clothing_type)
       IN  IF errors_detected = <<>>
           THEN /\ fm_pc' = "final"
                /\ loop_exit' = "no_errors"
                /\ UNCHANGED <<attempt, current_measurements, error_corrections,
                               reprocessing_history>>
           ELSE /\ current_measurements' = st.corrected
                /\ error_corrections' = st.error_corrections
                /\ IF validation_result.is_valid
                   THEN /\ fm_pc' = "final"
                        /\ loop_exit' = "valid"
                        /\ UNCHANGED <<attempt, reprocessing_history>>
                   ELSE /\ reprocessing_history' =
                              Append(reprocessing_history,
                                     [attempt |-> attempt,
                                      errors_detected |-> errors_detected,
                                      corrections_applied |->
                                          LastN(st.error_corrections, Len(errors_detected)),
                                      validation_result |-> validation_result])
                        /\ attempt' = attempt + 1
                        /\ fm_pc' = IF InRange(attempt + 1) THEN "loop" ELSE "final"
                        /\ loop_exit' = IF InRange(attempt + 1) THEN "none" ELSE "exhausted"
    /\ UNCHANGED <<calls, raw_measurements, clothing_type, fm_result, fm_previous,
                   bodyVars, sizeVars, mvVars, vtonVars, scanVars, heightVars, queueVars>>

\* lines 126-141: the final size, the fit analysis and the dict returned
Finish ==
    /\ fm_pc = "final"
    /\ LET final_size == determine_final_size_with_confidence(current_measurements,
                                                              clothing_type)
       IN  fm_result' =
               [clothing_type |-> clothing_type,
                measurements |-> current_measurements,
                detected_size |-> final_size,
                error_corrections |-> error_corrections,
                reprocessing_history |-> reprocessing_history,
                fit_analysis |-> generate_fitmatch_fit_analysis(
                                     current_measurements, final_size, clothing_type),
                validation_method |-> "FITMATCH_ERROR_DETECTION_REPROCESSING"]
    /\ fm_pc' = "returned"
    /\ UNCHANGED <<calls, raw_measurements, clothing_type, attempt, rounds, loop_exit,
                   current_measurements, error_corrections, reprocessing_history,
                   fm_previous, bodyVars, sizeVars, mvVars, vtonVars, scanVars, heightVars,
                   queueVars>>

\* what a caller that submits its job again holds of the call that returned
Outcome ==
    [raw_measurements |-> raw_measurements, clothing_type |-> clothing_type,
     loop_exit |-> loop_exit, rounds |-> rounds, result |-> fm_result]

\* the worker's next job calls the same validator object, with another garment or
\* with the garment of the call before
NextJob ==
    /\ fm_pc = "returned"
    /\ calls < MaxCalls
    /\ calls' = calls + 1
    /\ \/ /\ \E job \in LaterCalls :
                /\ raw_measurements' = job[1]
                /\ clothing_type' = job[2]
          /\ fm_previous' = NoResult
       \/ /\ UNCHANGED <<raw_measurements, clothing_type>>
          /\ fm_previous' = Outcome
    /\ fm_pc' = "ready"
    /\ attempt' = 0 /\ rounds' = 0 /\ loop_exit' = "none"
    /\ current_measurements' = NoResult
    /\ fm_result' = NoResult
    /\ UNCHANGED <<error_corrections, reprocessing_history, bodyVars, sizeVars, mvVars, vtonVars, scanVars, heightVars,
                   queueVars>>

NextFit == Start \/ Attempt \/ Finish \/ NextJob

SpecFit == InitFit /\ [][NextFit]_vars

\* ----------------------- validate_and_reprocess_measurements: the claims

KnownType == clothing_type \in DOMAIN FITMATCH_CLOTHING_STANDARDS

\* errors are detected on m, and again after each of n rounds of correction
RECURSIVE Redetected(_, _, _)
Redetected(m, ctype, n) ==
    LET errors == detect_measurement_errors(m, ctype)
        corrected == apply_error_corrections(
                         [corrected |-> m, error_corrections |-> <<>>],
                         errors, ctype, 1).corrected
    IN  /\ errors # <<>>
        /\ detect_measurement_errors(corrected, ctype) # <<>>
        /\ (n > 1 => Redetected(corrected, ctype, n - 1))

\* the bounds a call keeps at every step
RoundsBounded ==
    /\ rounds <= max_reprocessing_attempts
    /\ Len(reprocessing_history) <= max_reprocessing_attempts

\* a call whose errors come back after every correction ends after three rounds
\* with three records
ExhaustsAtThree ==
    (fm_pc \in {"final", "returned"}
     /\ Redetected(raw_measurements, clothing_type, max_reprocessing_attempts)) =>
        /\ rounds = max_reprocessing_attempts
        /\ Len(reprocessing_history) = max_reprocessing_attempts
        /\ \A i \in 1..Len(reprocessing_history) : reprocessing_history[i].attempt = i

\* the steps a call has left at most: a variant that every step of a call lowers
StepsLeft ==
    CASE fm_pc = "ready"    -> max_reprocessing_attempts + 2
      [] fm_pc = "loop"     -> max_reprocessing_attempts + 2 - attempt
      [] fm_pc = "final"    -> 1
      [] OTHER              -> 0

\* a call that has not returned can take a step: Start and Finish ask for nothing
\* but their place in the call, Attempt asks for an attempt number inside the range
CallNotStuck == fm_pc = "loop" => InRange(attempt)

ReturnsRawUntouched ==
    (fm_pc = "returned"
     /\ detect_measurement_errors(raw_measurements, clothing_type) = <<>>) =>
        /\ rounds = 1
        /\ fm_result.measurements = raw_measurements
        /\ fm_result.reprocessing_history = <<>>
        /\ fm_result.error_corrections = <<>>

\* C9: when the first analysis detects no error the call stops after that one
\* analysis and returns measurements equal to the raw input, an empty
\* reprocessing_history and an empty error_corrections; no step of a call changes
\* the caller's raw_measurements.
C9_NoErrorReturnsRawAndEmptyLists ==
    /\ []ReturnsRawUntouched
    /\ [][fm_pc # "returned" => raw_measurements' = raw_measurements]_vars

C9_Witness ==
    /\ fm_pc = "returned"
    /\ calls = 2
    /\ clothing_type = "top"
    /\ raw_measurements["Chest Circumference"] = 96 * U
    /\ detect_measurement_errors(raw_measurements, clothing_type) = <<>>
    /\ fm_result.measurements = raw_measurements
    /\ fm_result.error_corrections = <<>>

\* C10: a call for a clothing type that has no size chart does not return a
\* detected size.
C10_NoChartNoDetectedSize ==
    ~KnownType => fm_pc # "returned"

\* C10 amended: a call for a clothing type that has no size chart detects no error,
\* runs one analysis and returns the raw measurements with detected_size 'M', no
\* correction, no history and an empty fit analysis.
C10_NoChartReturnsDefaultSize ==
    (fm_pc = "returned" /\ ~KnownType) =>
        /\ rounds = 1
        /\ loop_exit = "no_errors"
        /\ fm_result.detected_size = "M"
        /\ fm_result.measurements = raw_measurements
        /\ fm_result.error_corrections = <<>>
        /\ fm_result.reprocessing_history = <<>>
        /\ fm_result.fit_analysis = <<>>

C10_Witness ==
    /\ fm_pc = "returned"
    /\ clothing_type = "dress"
    /\ raw_measurements["Chest Circumference"] = 150 * U
    /\ raw_measurements["Total Length"] = 120 * U
    /\ fm_result.detected_size = "M"

\* ------------------------------ MeasurementValidator: unavailable measurements

\* the keys of the call's dict that hold "N/A"
Unavailable == {key \in MVKeys : mv_measurements[key] = NA}

\* C11: when one raw measurement is "N/A", validate_all_measurements does not raise
\* and returns a dict in which that measurement is the height-ratio estimate,
\* height x (min_ratio + max_ratio) / 2.
C11_UnavailableReplacedByEstimate ==
    (mv_pc = "once" /\ Cardinality(Unavailable) = 1) =>
        /\ ~mv_first.raised
        /\ \A key \in Unavailable :
              2 * mv_first.corrected[key] = MVLow(key) + MVHigh(key)

\* --------------------------------------------- VTONMeasurementValidator: steps

\* None, the mark _pre_validation_filter leaves on a value to recalculate
PyNone == 0 - 3

\* the keys of the raw dict, in the order the dict holds them; each key is named
\* by the type _identify_measurement_type gives it
VKeyOrder == <<"chest_circumference", "waist_circumference", "hip_circumference",
               "neck_circumference">>

VKeys == {VKeyOrder[i] : i \in 1..Len(VKeyOrder)}

\* self.human_ranges of the types of VKeys, in cm
human_ranges ==
    [ chest_circumference |-> <<75, 120>>,
      waist_circumference |-> <<60, 110>>,
      hip_circumference   |-> <<80, 120>>,
      neck_circumference  |-> <<30, 45>> ]

\* self.height_ratios of the types of VKeys, in percent of the height
VTON_height_ratios ==
    [ chest_circumference |-> <<45, 65>>,
      waist_circumference |-> <<35, 55>>,
      hip_circumference   |-> <<50, 70>> ]

\* a value the dict holds under the key: neither a missing key nor None
Held(value) == value # Absent /\ value # PyNone

\* the notes and the dict of a loop over the keys, key by key; one(key, value)
\* gives the entry and the notes of a key
RECURSIVE OverKeys(_, _, _, _)
OverKeys(one(_, _), measurements, i, acc) ==
    IF i > Len(VKeyOrder) THEN acc
    ELSE LET key == VKeyOrder[i]
             r   == one(key, measurements[key])
         IN  OverKeys(one, measurements, i + 1,
                      [out   |-> [acc.out EXCEPT ![key] = r.value],
                       notes |-> acc.notes \o r.notes,
                       corrections |-> acc.corrections + r.corrections])

NoKeys == [out |-> [k \in VKeys |-> Absent], notes |-> <<>>, corrections |-> 0]

\* _pre_validation_filter: a value that is not a positive number is left out, a
\* value outside the human range of its type becomes None with a note
FilterOne(key, value) ==
    IF value = Absent \/ value = NA \/ value <= 0
    THEN [value |-> Absent, notes |-> <<>>, corrections |-> 0]
    ELSE IF key \in DOMAIN human_ranges
            /\ (value < human_ranges[key][1] * U \/ value > human_ranges[key][2] * U)
    THEN [value |-> PyNone, notes |-> << <<"Filtered impossible", key>> >>,
          corrections |-> 0]
    ELSE [value |-> value, notes |-> <<>>, corrections |-> 0]

pre_validation_filter(raw_measurements_v) ==
    OverKeys(FilterOne, raw_measurements_v, 1, NoKeys)

\* `not x` of an optional number: None or zero
Falsy0(x) == x = Absent \/ x = 0

\* detected_height_cm = 170.0 when it is None or 0
ResolvedHeight(detected_height_cm) ==
    IF Falsy0(detected_height_cm) THEN 170 ELSE detected_height_cm

\* `px and px > 0`
ViewUsable(px) == px # Absent /\ px > 0

\* the value _calculate_unified_scale_factor returns, in cm per pixel, as the
\* fraction num / den: the mean of h / px over the usable views, h / 1000 with none
scale_factor(front_height_px, side_height_px, detected_height_cm) ==
    LET h == ResolvedHeight(detected_height_cm)
    IN  IF ViewUsable(front_height_px) /\ ViewUsable(side_height_px)
        THEN [num |-> h * (front_height_px + side_height_px),
              den |-> 2 * front_height_px * side_height_px]
        ELSE IF ViewUsable(front_height_px) THEN [num |-> h, den |-> front_height_px]
        ELSE IF ViewUsable(side_height_px) THEN [num |-> h, den |-> side_height_px]
        ELSE [num |-> h, den |-> 1000]

\* discrepancy > 20 with both views: |h/f - h/s| / mean * 100 is
\* 200 |s - f| / (f + s) for a positive height and its negative for a negative one
LargeDiscrepancy(front_height_px, side_height_px, detected_height_cm) ==
    /\ ViewUsable(front_height_px) /\ ViewUsable(side_height_px)
    /\ ResolvedHeight(detected_height_cm) > 0
    /\ 10 * Abs(side_height_px - front_height_px) > front_height_px + side_height_px

\* _calculate_unified_scale_factor: the factor and the note it appends
calculate_unified_scale_factor(front_height_px, side_height_px, detected_height_cm) ==
    [scale |-> scale_factor(front_height_px, side_height_px, detected_height_cm),
     notes |-> IF LargeDiscrepancy(front_height_px, side_height_px, detected_height_cm)
               THEN << <<"Large front-side scaling discrepancy", "">> >>
               ELSE <<>>]

\* the factor in 1e-4 cm per pixel
ScaleE4(scale) == (scale.num * 100) \div (scale.den \div 100)

\* _apply_unified_scaling: a value above 100 is taken for pixels and multiplied by
\* the factor, with a note; values are whole tenths of a cm
apply_unified_scaling(measurements, scale) ==
    LET One(key, value) ==
            IF Held(value) /\ value > 100 * U
            THEN [value |-> (value \div 10000) * ScaleE4(scale),
                  notes |-> << <<"Converted", key>> >>, corrections |-> 0]
            ELSE [value |-> value, notes |-> <<>>, corrections |-> 0]
    IN  OverKeys(One, measurements, 1, NoKeys)

\* height_cm = 170.0 when it is None, 0, below 140 or above 200
SafeHeight(height_cm) ==
    IF Falsy0(height_cm) \/ height_cm < 140 \/ height_cm > 200 THEN 170 ELSE height_cm

\* _estimate_from_height_ratio: the middle of the ratio band, or the fallback table
estimate_from_height_ratio(measurement_type, height_cm) ==
    IF measurement_type \in DOMAIN VTON_height_ratios
    THEN height_cm * (VTON_height_ratios[measurement_type][1]
                      + VTON_height_ratios[measurement_type][2]) * (U \div 200)
    ELSE IF measurement_type = "neck_circumference" THEN 36 * U
    ELSE height_cm * (U \div 5)

\* the loop of _apply_proportional_correction: None is estimated, a value outside
\* its height band is clamped to [0.9 * min_val, 1.1 * max_val]
CorrectOne(height_cm, key, value) ==
    IF value = Absent THEN [value |-> Absent, notes |-> <<>>, corrections |-> 0]
    ELSE IF value = PyNone
    THEN [value |-> estimate_from_height_ratio(key, height_cm),
          notes |-> << <<"Estimated", key>> >>, corrections |-> 1]
    ELSE IF key \in DOMAIN VTON_height_ratios
    THEN LET min_val == RatioOf(height_cm, VTON_height_ratios[key][1])
             max_val == RatioOf(height_cm, VTON_height_ratios[key][2])
         IN  IF value < min_val \/ value > max_val
             THEN [value |-> Max2((min_val * 9) \div 10, Min2(value, (max_val * 11) \div 10)),
                   notes |-> << <<"Corrected", key>> >>, corrections |-> 1]
             ELSE [value |-> value, notes |-> <<>>, corrections |-> 0]
    ELSE [value |-> value, notes |-> <<>>, corrections |-> 0]

\* truth of an optional number: held and not zero
Truthy(value) == Held(value) /\ value # 0

\* the test `waist >= chest` taken as the bound the correction aims below
WaistOverNineTenths(waist, chest) == 10 * waist > 9 * chest

\* `waist >= chest`
WaistNotBelow(waist, other) == waist >= other

\* _apply_inter_measurement_validation: waist := chest * 0.85 when waist >= chest,
\* then waist := hips * 0.90 when waist >= hips
apply_inter_measurement_validation(measurements) ==
    LET chest == measurements["chest_circumference"]
        waist == measurements["waist_circumference"]
        hips  == measurements["hip_circumference"]
    IN  IF Truthy(chest) /\ Truthy(waist) /\ Truthy(hips)
        THEN LET first  == WaistNotBelow(waist, chest)
                 waist1 == IF first THEN (chest * 17) \div 20 ELSE waist
                 second == WaistNotBelow(waist1, hips)
                 waist2 == IF second THEN (hips * 9) \div 10 ELSE waist1
             IN  [out |-> [measurements EXCEPT !["waist_circumference"] = waist2],
                  notes |-> (IF first THEN << <<"Corrected waist to be < chest", "">> >>
                             ELSE <<>>)
                            \o (IF second THEN << <<"Corrected waist to be < hips", "">> >>
                                ELSE <<>>),
                  corrections |-> (IF first THEN 1 ELSE 0) + (IF second THEN 1 ELSE 0)]
        ELSE [out |-> measurements, notes |-> <<>>, corrections |-> 0]

\* _apply_proportional_correction
apply_proportional_correction(measurements, height_cm) ==
    LET h == SafeHeight(height_cm)
        One(key, value) == CorrectOne(h, key, value)
        each  == OverKeys(One, measurements, 1, NoKeys)
        inter == apply_inter_measurement_validation(each.out)
    IN  [out |-> inter.out, notes |-> each.notes \o inter.notes,
         corrections |-> each.corrections + inter.corrections]

\* _detect_gender: whr < 0.82, as 50 * waist < 41 * hips; 'female' without both
VTON_detect_gender(measurements) ==
    LET waist == measurements["waist_circumference"]
        hips  == measurements["hip_circumference"]
    IN  IF Truthy(waist) /\ Truthy(hips)
        THEN (IF 50 * waist < 41 * hips THEN "female" ELSE "male")
        ELSE "female"

\* the score with a fixed penalty of 10 for a call whose notes hold the
\* front-side discrepancy
VTON_confidence_with_note_penalty(corrected_measurements, corrections, notes) ==
    LET held  == {k \in VKeys : Held(corrected_measurements[k])}
        valid == {k \in held : /\ human_ranges[k][1] * U <= corrected_measurements[k]
                               /\ corrected_measurements[k] <= human_ranges[k][2] * U}
        total == Cardinality(held)
        noted == \E i \in 1..Len(notes) : notes[i][1] = "Large front-side scaling discrepancy"
        base  == 100 - Min2(corrections * 5, 30) - (IF noted THEN 10 ELSE 0)
        num   == base * total + Cardinality(valid) * 100
        den   == 2 * total
    IN  IF total = 0 THEN [num |-> 0, den |-> 1]
        ELSE [num |-> Max2(60 * den, Min2(100 * den, num)), den |-> den]

\* _calculate_confidence_score as the fraction num / den: the mean of
\* 100 - min(5 * corrections, 30) and the share of values inside their human
\* range, held in [60, 100]; 0 for a dict without a value
VTON_calculate_confidence_score(corrected_measurements, corrections, notes) ==
    LET held  == {k \in VKeys : Held(corrected_measurements[k])}
        valid == {k \in held : /\ human_ranges[k][1] * U <= corrected_measurements[k]
                               /\ corrected_measurements[k] <= human_ranges[k][2] * U}
        total == Cardinality(held)
        base  == 100 - Min2(corrections * 5, 30)
        num   == base * total + Cardinality(valid) * 100
        den   == 2 * total
    IN  IF total = 0 THEN [num |-> 0, den |-> 1]
        ELSE [num |-> Max2(60 * den, Min2(100 * den, num)), den |-> den]

\* _format_final_output; notes is the list object self.validation_notes is bound to
\* and corrections is self.corrections_applied, both read when the dict is built
VTON_format_final_output(measurements, clothing_size, confidence_score, gender, notes, corrections) ==
    [ final_measurements |->
          [k \in {x \in VKeys : Held(measurements[x])} |-> Format1(measurements[k])],
      clothing_size |-> clothing_size,
      confidence_score |-> FormatFrac(confidence_score),
      gender_detected |-> gender,
      validation_notes |-> notes,
      corrections_applied |-> corrections,
      validation_method |-> "vton_professional" ]

\* what one call returns when no other call runs: the dict, with the notes
\* themselves in place of the list object
VTON_alone(args) ==
    LET filtered  == pre_validation_filter(args.raw)
        unified   == calculate_unified_scale_factor(args.front_height_px,
                         args.side_height_px, args.detected_height_cm)
        scaled    == apply_unified_scaling(filtered.out, unified.scale)
        corrected == apply_proportional_correction(scaled.out, args.detected_height_cm)
        notes     == filtered.notes \o unified.notes \o scaled.notes \o corrected.notes
        gender    == VTON_detect_gender(corrected.out)
        size      == VTON_classify_clothing_size(corrected.out["chest_circumference"],
                         corrected.out["waist_circumference"],
                         corrected.out["hip_circumference"], gender)
        score     == VTON_calculate_confidence_score(corrected.out, corrected.corrections,
                                                     notes)
    IN  VTON_format_final_output(corrected.out, size, score, gender, notes,
                                 corrected.corrections)

\* ------------------------------ VTONMeasurementValidator: calls on one instance

VArgs(chest, waist, hip, neck, front, side, height) ==
    [ raw |-> [k \in VKeys |->
                  CASE k = "chest_circumference" -> chest
                    [] k = "waist_circumference" -> waist
                    [] k = "hip_circumference"   -> hip
                    [] OTHER                     -> neck],
      front_height_px |-> front, side_height_px |-> side, detected_height_cm |-> height ]

VChestInputs  == Cm({Absent, 50, 80, 95, 110})
VWaistInputs  == Cm({Absent, 0, 55, 70, 88, 96, 105})
VHipInputs    == Cm({Absent, 70, 85, 95, 110})
VNeckInputs   == Cm({Absent, 50})
VFrontInputs  == {Absent, 0, 500, 1000}
VSideInputs   == {Absent, 800, 1000, 2000}
VHeightInputs == {Absent, 130, 170, 190, 0 - 170}

\* the calls of two concurrent requests: one that needs no correction, one with a
\* filtered chest, a waist above the hips and views that disagree, one whose chest
\* is taken for pixels
PairCalls ==
    { VArgs(95 * U, 80 * U, 100 * U, Absent, 1000, 1000, 170),
      VArgs(50 * U, 96 * U, 85 * U, 50 * U, 500, 1000, 170),
      VArgs(110 * U, 70 * U, 95 * U, Absent, 1000, Absent, 170) }

VtonBlank ==
    /\ v_local = [t \in Calls |-> NoResult]
    /\ validation_notes = 0
    /\ notes_heap = [r \in {0} \cup Calls |-> <<>>]
    /\ corrections_applied = 0
    /\ v_result = [t \in Calls |-> NoResult]

\* one call of validate_vton_measurements
InitVton ==
    /\ IdleBody /\ IdleSize /\ IdleMV /\ IdleFM /\ IdleScan /\ IdleHeight /\ IdleQueue
    /\ VtonBlank
    /\ v_pc = [t \in Calls |-> IF t = 1 THEN "ready" ELSE "idle"]
    /\ \E chest \in VChestInputs, waist \in VWaistInputs, hip \in VHipInputs,
          neck \in VNeckInputs, front \in VFrontInputs, side \in VSideInputs,
          height \in VHeightInputs :
          v_args = [t \in Calls |->
                       IF t = 1 THEN VArgs(chest, waist, hip, neck, front, side, height)
                       ELSE NoResult]

\* two calls of validate_vton_measurements from two worker threads
InitVtonPair ==
    /\ IdleBody /\ IdleSize /\ IdleMV /\ IdleFM /\ IdleScan /\ IdleHeight /\ IdleQueue
    /\ VtonBlank
    /\ v_pc = [t \in Calls |-> "ready"]
    /\ v_args \in [Calls -> PairCalls]

\* the notes a step appends go to the list self.validation_notes is bound to now
AppendNotes(notes) ==
    notes_heap' = [notes_heap EXCEPT ![validation_notes] = @ \o notes]

\* lines 84-85: self.validation_notes = [] binds a new list, the count is zeroed
VStart(t) ==
    /\ v_pc[t] = "ready"
    /\ validation_notes' = t
    /\ notes_heap' = [notes_heap EXCEPT ![t] = <<>>]
    /\ corrections_applied' = 0
    /\ v_pc' = [v_pc EXCEPT ![t] = "filter"]
    /\ UNCHANGED <<v_args, v_local, v_result, bodyVars, sizeVars, mvVars, fmVars, scanVars, heightVars,
                   queueVars>>

\* step 1
VFilter(t) ==
    /\ v_pc[t] = "filter"
    /\ LET r == pre_validation_filter(v_args[t].raw)
       IN  /\ v_local' = [v_local EXCEPT ![t] = [m |-> r.out]]
           /\ AppendNotes(r.notes)
    /\ v_pc' = [v_pc EXCEPT ![t] = "scale"]
    /\ UNCHANGED <<v_args, validation_notes, corrections_applied, v_result,
                   bodyVars, sizeVars, mvVars, fmVars, scanVars, heightVars, queueVars>>

\* step 2
VScaleFactor(t) ==
    /\ v_pc[t] = "scale"
    /\ LET r == calculate_unified_scale_factor(v_args[t].front_height_px,
                    v_args[t].side_height_px, v_args[t].detected_height_cm)
       IN  /\ v_local' = [v_local EXCEPT ![t] = [m |-> @.m, scale |-> r.scale]]
           /\ AppendNotes(r.notes)
    /\ v_pc' = [v_pc EXCEPT ![t] = "scaling"]
    /\ UNCHANGED <<v_args, validation_notes, corrections_applied, v_result,
                   bodyVars, sizeVars, mvVars, fmVars, scanVars, heightVars, queueVars>>

\* step 3
VScaling(t) ==
    /\ v_pc[t] = "scaling"
    /\ LET r == apply_unified_scaling(v_local[t].m, v_local[t].scale)
       IN  /\ v_local' = [v_local EXCEPT ![t] = [m |-> r.out, scale |-> @.scale]]
           /\ AppendNotes(r.notes)
    /\ v_pc' = [v_pc EXCEPT ![t] = "correct"]
    /\ UNCHANGED <<v_args, validation_notes, corrections_applied, v_result,
                   bodyVars, sizeVars, mvVars, fmVars, scanVars, heightVars, queueVars>>

\* step 4
VCorrect(t) ==
    /\ v_pc[t] = "correct"
    /\ LET r == apply_proportional_correction(v_local[t].m, v_args[t].detected_height_cm)
       IN  /\ v_local' = [v_local EXCEPT ![t] = [m |-> r.out, scale |-> @.scale]]
           /\ AppendNotes(r.notes)
           /\ corrections_applied' = corrections_applied + r.corrections
    /\ v_pc' = [v_pc EXCEPT ![t] = "score"]
    /\ UNCHANGED <<v_args, validation_notes, v_result, bodyVars, sizeVars, mvVars, fmVars, scanVars, heightVars,
                   queueVars>>

\* steps 5 and 6
VScore(t) ==
    /\ v_pc[t] = "score"
    /\ LET m      == v_local[t].m
           gender == VTON_detect_gender(m)
       IN  v_local' = [v_local EXCEPT ![t] =
               [m |-> m, scale |-> @.scale, gender |-> gender,
                clothing_size |->
                    VTON_classify_clothing_size(m["chest_circumference"],
                        m["waist_circumference"], m["hip_circumference"], gender),
                confidence_score |->
                    VTON_calculate_confidence_score(m, corrections_applied,
                                                    notes_heap[validation_notes])]]
    /\ v_pc' = [v_pc EXCEPT ![t] = "format"]
    /\ UNCHANGED <<v_args, validation_notes, notes_heap, corrections_applied, v_result,
                   bodyVars, sizeVars, mvVars, fmVars, scanVars, heightVars, queueVars>>

\* step 7
VFormat(t) ==
    /\ v_pc[t] = "format"
    /\ v_result' = [v_result EXCEPT ![t] =
           VTON_format_final_output(v_local[t].m, v_local[t].clothing_size,
               v_local[t].confidence_score, v_local[t].gender, validation_notes,
               corrections_applied)]
    /\ v_pc' = [v_pc EXCEPT ![t] = "done"]
    /\ UNCHANGED <<v_args, v_local, validation_notes, notes_heap, corrections_applied,
                   bodyVars, sizeVars, mvVars, fmVars, scanVars, heightVars, queueVars>>

NextVton ==
    \E t \in Calls :
        VStart(t) \/ VFilter(t) \/ VScaleFactor(t) \/ VScaling(t) \/ VCorrect(t)
        \/ VScore(t) \/ VFormat(t)

SpecVton == InitVton /\ [][NextVton]_vars

SpecVtonPair == InitVtonPair /\ [][NextVton]_vars

\* the dict call t returned, with the notes its list object holds now
Returned(t) ==
    [v_result[t] EXCEPT !.validation_notes = notes_heap[@]]


\* ---------------------------------------------------------------- claim C12

\* C12: two concurrent calls of validate_vton_measurements on the one module-level
\* validator each return the validation_notes, the corrections_applied count and
\* the confidence_score that the same call returns when it runs alone.
C12_ConcurrentCallsReturnAsAlone ==
    \A t \in Calls :
        v_pc[t] = "done" =>
            LET alone == VTON_alone(v_args[t])
            IN  /\ Returned(t).validation_notes = alone.validation_notes
                /\ Returned(t).corrections_applied = alone.corrections_applied
                /\ Returned(t).confidence_score = alone.confidence_score


\* ---------------------------------------------------------------- claim C14

\* the views of a call whose pixel height is positive, front first
UsableViews(args) ==
    SelectSeq(<<args.front_height_px, args.side_height_px>>, ViewUsable)

\* the mean of height / px over a sequence of pixel heights, as a fraction
RECURSIVE SumOver(_, _)
SumOver(height, views) ==
    IF views = <<>> THEN [num |-> 0, den |-> 1]
    ELSE LET rest == SumOver(height, Tail(views))
         IN  IF Tail(views) = <<>> THEN [num |-> height, den |-> Head(views)]
             ELSE [num |-> height * rest.den + rest.num * Head(views),
                   den |-> Head(views) * rest.den]

MeanOver(height, views) ==
    LET sum == SumOver(height, views)
    IN  [num |-> sum.num, den |-> IF Len(views) = 1 THEN sum.den ELSE sum.den * Len(views)]

ScaleComputed(t) == v_pc[t] \in {"scaling", "correct", "score", "format", "done"}

\* C14: _calculate_unified_scale_factor returns the mean of height_cm / view_px_height
\* over exactly the views whose pixel height is positive, height_cm / 1000 when no
\* view is usable, and for every input the returned factor is positive.
C14_ScaleIsMeanAndPositive ==
    \A t \in Calls :
        ScaleComputed(t) =>
            LET height == ResolvedHeight(v_args[t].detected_height_cm)
                views  == UsableViews(v_args[t])
                scale  == v_local[t].scale
            IN  /\ scale = IF views = <<>> THEN [num |-> height, den |-> 1000]
                           ELSE MeanOver(height, views)
                /\ scale.num > 0 /\ scale.den > 0

\* the part of C14 that the code keeps: the mean over the usable views, or the fallback
MeanOrFallback ==
    \A t \in Calls :
        ScaleComputed(t) =>
            LET height == ResolvedHeight(v_args[t].detected_height_cm)
                views  == UsableViews(v_args[t])
            IN  v_local[t].scale = IF views = <<>> THEN [num |-> height, den |-> 1000]
                                   ELSE MeanOver(height, views)


\* ---------------------------------------------------------------- claim C15

\* the least weighted distance of a chart, in twentieths of 1e-5 cm
LeastDistance(dist) ==
    CHOOSE d \in {dist[l] : l \in DOMAIN dist} : \A l \in DOMAIN dist : d <= dist[l]

\* C15: each classifier returns 'Unknown' exactly when the best combined distance
\* exceeds its ceiling (15 cm for AnthropometricBodyValidator, 10 cm for
\* VTONMeasurementValidator), and otherwise returns the best-fitting size label.
C15_UnknownExactlyAboveCeiling ==
    SizeDone =>
        /\ size_result.abv = "Unknown" <=> LeastDistance(ABV_Dist) > ABV_Ceiling * 20 * U
        /\ size_result.vton = "Unknown" <=> LeastDistance(VTON_Dist) > VTON_Ceiling * 20 * U
        /\ size_result.abv # "Unknown" => FirstOfLeast(SizeOrder8, ABV_Dist, size_result.abv)
        /\ size_result.vton # "Unknown" => FirstOfLeast(SizeOrder6, VTON_Dist, size_result.vton)

\* what the code does at the ceiling: 'Unknown' exactly when the best distance
\* reaches it
UnknownFromCeilingOn ==
    SizeDone =>
        /\ size_result.abv = "Unknown" <=> LeastDistance(ABV_Dist) >= ABV_Ceiling * 20 * U
        /\ size_result.vton = "Unknown" <=> LeastDistance(VTON_Dist) >= VTON_Ceiling * 20 * U


\* ---------------------------------------------------------------- claim C16

\* a call has returned that repeated the input of the call before it
RepeatedCallReturned ==
    /\ fm_pc = "returned"
    /\ fm_previous # NoResult
    /\ fm_previous.raw_measurements = raw_measurements
    /\ fm_previous.clothing_type = clothing_type

\* C16: two calls of validate_and_reprocess_measurements with identical
\* raw_measurements and clothing_type, one after the other on the same validator,
\* end in the same terminal outcome with the same number of attempts, the same final
\* measurements and the same detected size.
C16_RepeatedCallSameOutcome ==
    RepeatedCallReturned =>
        /\ loop_exit = fm_previous.loop_exit
        /\ rounds = fm_previous.rounds
        /\ fm_result.measurements = fm_previous.result.measurements
        /\ fm_result.detected_size = fm_previous.result.detected_size

\* a repeated call that went through all three attempts, as the call before it did
C16_Witness ==
    /\ RepeatedCallReturned
    /\ calls = 2
    /\ loop_exit = "exhausted" /\ rounds = max_reprocessing_attempts
    /\ fm_previous.rounds = max_reprocessing_attempts
    /\ fm_result.measurements # raw_measurements


\* ---------------------------------------------------------------- claim C17

\* the corrections one pass of the loop appended to self.error_corrections
AppliedInPass == Len(error_corrections') - Len(error_corrections)

\* the returned history holds a record of the attempt
Recorded(history, n) == \E i \in 1..Len(history) : history[i].attempt = n

\* C17: every fix applied during a run is in the returned history: an attempt in
\* which at least one correction was applied has a record in reprocessing_history,
\* and every error detected in the attempt has a correction applied in that attempt.
C17_EveryFixRecorded ==
    [][fm_pc = "loop" =>
          LET errors_detected == detect_measurement_errors(current_measurements,
                                                           clothing_type)
          IN  /\ AppliedInPass > 0 => Recorded(reprocessing_history', attempt)
              /\ AppliedInPass = Len(errors_detected)]_vars


\* ---------------------------------------------------------------- claim C18

\* the dict _apply_inter_measurement_validation is given in a call: the raw values
\* filtered, scaled and corrected one by one against the height bands
InterEntry(args) ==
    LET filtered == pre_validation_filter(args.raw)
        scale    == scale_factor(args.front_height_px, args.side_height_px,
                                 args.detected_height_cm)
        scaled   == apply_unified_scaling(filtered.out, scale)
        h        == SafeHeight(args.detected_height_cm)
        One(key, value) == CorrectOne(h, key, value)
    IN  OverKeys(One, scaled.out, 1, NoKeys).out

Corrected(t) == v_pc[t] \in {"score", "format", "done"}

AllPresent(m) ==
    /\ Truthy(m["chest_circumference"])
    /\ Truthy(m["waist_circumference"])
    /\ Truthy(m["hip_circumference"])

\* C18 as stated: after _apply_inter_measurement_validation, whenever chest, waist
\* and hip are all present, waist <= 0.90 x chest holds; a waist above 0.90 x chest
\* on entry is replaced by chest x 0.85.
C18_WaistAtMostNineTenthsOfChest ==
    \A t \in Calls :
        Corrected(t) /\ AllPresent(InterEntry(v_args[t])) =>
            LET entry == InterEntry(v_args[t])
                out   == v_local[t].m
                chest == entry["chest_circumference"]
            IN  /\ 10 * out["waist_circumference"] <= 9 * out["chest_circumference"]
                /\ 10 * entry["waist_circumference"] > 9 * chest
                       /\ 10 * ((chest * 17) \div 20) <= 9 * entry["hip_circumference"]
                   => out["waist_circumference"] = (chest * 17) \div 20

\* C18 as the code has it: after _apply_inter_measurement_validation, whenever
\* chest, waist and hip are all present, waist < chest and waist < hips hold; the
\* waist is replaced by chest x 0.85 exactly when it is at or above the chest on
\* entry, then by hips x 0.90 when it is still at or above the hips, and is kept
\* otherwise; chest and hips are never changed.
C18_WaistBelowChestAndHips ==
    \A t \in Calls :
        Corrected(t) /\ AllPresent(InterEntry(v_args[t])) =>
            LET entry  == InterEntry(v_args[t])
                out    == v_local[t].m
                chest  == entry["chest_circumference"]
                waist  == entry["waist_circumference"]
                hips   == entry["hip_circumference"]
                waist1 == IF waist >= chest THEN (chest * 17) \div 20 ELSE waist
            IN  /\ out["waist_circumference"] < out["chest_circumference"]
                /\ out["waist_circumference"] < out["hip_circumference"]
                /\ out["waist_circumference"] =
                       IF waist1 >= hips THEN (hips * 9) \div 10 ELSE waist1
                /\ out["chest_circumference"] = chest
                /\ out["hip_circumference"] = hips

\* a call whose waist reaches the step at or above the chest and leaves it as
\* chest x 0.85
C18_Witness ==
    /\ Corrected(1)
    /\ LET entry == InterEntry(v_args[1])
       IN  /\ AllPresent(entry)
           /\ entry["waist_circumference"] >= entry["chest_circumference"]
           /\ v_local[1].m["waist_circumference"] = (entry["chest_circumference"] * 17) \div 20


\* ---------------------------------------------------------------- claim C19

Finished(t) == v_pc[t] = "done"

DiscrepancyNoted(notes) ==
    \E i \in 1..Len(notes) : notes[i][1] = "Large front-side scaling discrepancy"

\* both views usable and their factors more than 20% of the mean apart
ViewsDisagree(args) ==
    /\ ViewUsable(args.front_height_px) /\ ViewUsable(args.side_height_px)
    /\ 10 * Abs(args.side_height_px - args.front_height_px)
           > args.front_height_px + args.side_height_px

\* the same call with a side view that agrees with the front view
Agreeing(args) == [args EXCEPT !.side_height_px = args.front_height_px]

\* the call and its agreeing twin end with the same measurements and corrections
SameMeasurements(t) ==
    LET twin == VTON_alone(Agreeing(v_args[t]))
    IN  /\ Returned(t).final_measurements = twin.final_measurements
        /\ Returned(t).corrections_applied = twin.corrections_applied

MIN_HUMAN_HEIGHT == 90

MAX_HUMAN_HEIGHT == 220

\* an estimator that raises instead of returning
Raises == 0 - 4

\* a height test that leaves the two bounds out
validate_height_strict(height) ==
    MIN_HUMAN_HEIGHT * U < height /\ height < MAX_HUMAN_HEIGHT * U

\* validate_height
validate_height(height) ==
    MIN_HUMAN_HEIGHT * U <= height /\ height <= MAX_HUMAN_HEIGHT * U

\* `height = method()` returned, and `if height and self.validate_height(height)`
Accepted(outcome) ==
    /\ outcome # Raises
    /\ outcome # PyNone /\ outcome # 0
    /\ validate_height(outcome)

RECURSIVE InsertSorted(_, _)
InsertSorted(x, s) ==
    IF s = <<>> THEN <<x>>
    ELSE IF x <= Head(s) THEN <<x>> \o s
    ELSE <<Head(s)>> \o InsertSorted(x, Tail(s))

RECURSIVE Sorted(_)
Sorted(s) == IF s = <<>> THEN <<>> ELSE InsertSorted(Head(s), Sorted(Tail(s)))

\* np.median of a list that is not empty: the middle of the sorted values, the mean
\* of the two middle ones for an even count
np_median(values) ==
    LET s == Sorted(values)
        n == Len(s)
    IN  IF n % 2 = 1 THEN s[(n + 1) \div 2]
        ELSE (s[n \div 2] + s[n \div 2 + 1]) \div 2

Estimators == 1..4

\* what an estimator may do: raise, return None, or return a height in cm
EstimatorOutcomes == {Raises, PyNone} \cup Cm({0, 80, 90, 150, 171, 220, 230})

IdleOthersForHeight ==
    IdleBody /\ IdleSize /\ IdleMV /\ IdleFM /\ IdleVton /\ IdleScan /\ IdleQueue

InitHeight ==
    /\ IdleOthersForHeight
    /\ h_pc = "loop"
    /\ h_methods \in [Estimators -> EstimatorOutcomes]
    /\ h_index = 1
    /\ heights = <<>>
    /\ h_return = NoResult
    /\ mh_pc = "idle" /\ mh_mode = "" /\ stdin = NoResult /\ mh_return = NoResult

\* one pass of the loop of lines 53-60
CallEstimator ==
    /\ h_pc = "loop"
    /\ heights' = IF Accepted(h_methods[h_index]) THEN Append(heights, h_methods[h_index])
                  ELSE heights
    /\ h_index' = h_index + 1
    /\ h_pc' = IF h_index + 1 \in Estimators THEN "loop" ELSE "median"
    /\ UNCHANGED <<h_methods, h_return, mh_pc, mh_mode, stdin, mh_return, bodyVars, sizeVars,
                   mvVars, fmVars, vtonVars, scanVars, queueVars>>

\* lines 62-67
ReturnMedian ==
    /\ h_pc = "median"
    /\ h_return' = IF heights # <<>> THEN np_median(heights) ELSE PyNone
    /\ h_pc' = "done"
    /\ UNCHANGED <<h_methods, h_index, heights, mh_pc, mh_mode, stdin, mh_return, bodyVars,
                   sizeVars, mvVars, fmVars, vtonVars, scanVars, queueVars>>

NextHeight == CallEstimator \/ ReturnMedian

SpecHeight == InitHeight /\ [][NextHeight]_vars

\* ---------------------------------------------------------------- claim C20

\* an estimator result that is neither None nor outside [90, 220] cm
Survives(outcome) ==
    outcome # Raises /\ outcome # PyNone /\ 90 * U <= outcome /\ outcome <= 220 * U

Survivors == {i \in Estimators : Survives(h_methods[i])}

\* m is the median of the values at the positions of set P: with an odd count a
\* value with as many at or below it as at or above it, with an even count the
\* mean of two values that split the others in halves
IsMedian(m, P) ==
    LET n == Cardinality(P)
    IN  IF n % 2 = 1
        THEN \E i \in P :
                 /\ m = h_methods[i]
                 /\ \E L \in SUBSET (P \ {i}) :
                        /\ 2 * Cardinality(L) = n - 1
                        /\ \A k \in L : h_methods[k] <= m
                        /\ \A k \in P \ ({i} \cup L) : h_methods[k] >= m
        ELSE \E i, j \in P :
                 /\ i # j /\ h_methods[i] <= h_methods[j]
                 /\ 2 * m = h_methods[i] + h_methods[j]
                 /\ \E L \in SUBSET (P \ {i, j}) :
                        /\ 2 * Cardinality(L) = n - 2
                        /\ \A k \in L : h_methods[k] <= h_methods[i]
                        /\ \A k \in P \ ({i, j} \cup L) : h_methods[k] >= h_methods[j]

\* C20: get_automatic_height returns the median of exactly those estimator results
\* that are neither None nor outside [90, 220] cm, an estimator that raises being
\* skipped, and returns None when no estimator result survives.
C20_MedianOfSurvivors ==
    h_pc = "done" =>
        IF Survivors = {} THEN h_return = PyNone
        ELSE /\ h_return # PyNone
             /\ IsMedian(h_return, Survivors)
             /\ Len(heights) = Cardinality(Survivors)

\* one estimator raises, one returns 230 and is dropped, and the median of the
\* other two, 171 and 90, is 130.5
C20_Witness ==
    /\ h_pc = "done"
    /\ h_methods = <<Raises, 171 * U, 230 * U, 90 * U>>
    /\ heights = <<171 * U, 90 * U>>
    /\ h_return = 261 * HalfCm


\* ------------------- body_segments.py, get_height.py: the width-scan loops

max_length == 5000

\* size of the silhouette image, in pixels
ImageWidth == 4

ImageHeight == 3

\* a module global no statement has assigned yet
Unset == 0 - 5

Pixels == (0..(ImageHeight - 1)) \X (0..(ImageWidth - 1))

\* the background pixels <<y, x>> of a mask: none, the left column, the right
\* column, both columns, the whole border, the top row
Masks ==
    { {},
      {p \in Pixels : p[2] = 0},
      {p \in Pixels : p[2] = ImageWidth - 1},
      {p \in Pixels : p[2] \in {0, ImageWidth - 1}},
      {p \in Pixels : p[2] \in {0, ImageWidth - 1} \/ p[1] \in {0, ImageHeight - 1}},
      {p \in Pixels : p[1] = 0} }

\* numpy indexing along an axis of length n: -n .. n - 1 is accepted, a negative
\* index counts from the end
IndexAccepted(n, i) == 0 - n <= i /\ i < n
Wrapped(n, i) == IF i < 0 THEN n + i ELSE i

\* image_front_silhouette[y, x].sum() < color_background
IsBackground(image, y, x) ==
    <<Wrapped(ImageHeight, y), Wrapped(ImageWidth, x)>> \in image

\* sqrt((y_mid - current_y) ** 2 + (x_mid - current_x) ** 2), kept as its square
DistanceSq(dy, dx) == dy * dy + dx * dx

\* the scans: calculate_distance on one point, on two points whose perpendicular has
\* slope -1 or 1, on two points of equal x, on two points of equal y, and
\* get_height_head along a line of slope -1, 0 or 1
ScanCalls ==
    { [fn |-> "calculate_distance", kind |-> k, slope |-> s, x_mid |-> x, y_mid |-> 1] :
          k \in {"single", "vertical", "horizontal"}, s \in {0}, x \in {1, 2} }
    \cup
    { [fn |-> "calculate_distance", kind |-> "sloped", slope |-> s, x_mid |-> x, y_mid |-> 1] :
          s \in {0 - 1, 1}, x \in {1, 2} }
    \cup
    { [fn |-> "get_height_head", kind |-> "head", slope |-> s, x_mid |-> x, y_mid |-> 1] :
          s \in {0 - 1, 0, 1}, x \in {1, 2} }

\* the globals before the call: never assigned, or left by an earlier scan
GlobalsBefore ==
    { [current_distance_up |-> Unset, current_distance_down |-> Unset,
       x_perp1 |-> Unset, x_perp2 |-> Unset],
      [current_distance_up |-> 4, current_distance_down |-> 9,
       x_perp1 |-> 0, x_perp2 |-> 3] }

InitScan ==
    /\ IdleBody /\ IdleSize /\ IdleMV /\ IdleFM /\ IdleVton /\ IdleHeight /\ IdleQueue
    /\ scan_pc = "ready"
    /\ scan_image \in Masks
    /\ scan_call \in ScanCalls
    /\ scan_globals \in GlobalsBefore
    /\ scan_local = NoResult
    /\ scan_result = NoResult
    /\ scan_returned = <<>>

\* the scan setting out one pixel off the anchor
LoopStart_off_by_one(x_mid) ==
    [current_x |-> x_mid + 1, current_distance |-> 0, steps |-> 0,
     found_right |-> FALSE, found_left |-> FALSE]

\* current_distance = 0, current_x = x_mid (lines 205-207, 242-244)
LoopStart(x_mid) ==
    [current_x |-> x_mid, current_distance |-> 0, steps |-> 0,
     found_right |-> FALSE, found_left |-> FALSE]

\* calculate_distance up to its first loop (lines 190-211, 239-245) and
\* get_height_head up to its loop (lines 39-48)
EnterScan ==
    /\ scan_pc = "ready"
    /\ scan_local' = LoopStart(scan_call.x_mid)
    /\ CASE scan_call.kind = "single" ->
                /\ scan_globals' = [scan_globals EXCEPT !.current_distance_down = 0,
                                                        !.current_distance_up = 0]
                /\ scan_pc' = "right"
                /\ UNCHANGED scan_result
         [] scan_call.kind = "sloped" ->
                /\ scan_pc' = "right"
                /\ UNCHANGED <<scan_globals, scan_result>>
         [] scan_call.kind = "vertical" ->
                /\ scan_pc' = "finish"
                /\ UNCHANGED <<scan_globals, scan_result>>
         [] scan_call.kind = "horizontal" ->
                \* slope_perpendicular = -1 / slope_original with slope_original = 0
                /\ scan_pc' = "raised"
                /\ scan_result' = [raised |-> "ZeroDivisionError"]
                /\ UNCHANGED scan_globals
         [] OTHER ->
                /\ scan_pc' = "head"
                /\ UNCHANGED <<scan_globals, scan_result>>
    /\ UNCHANGED <<scan_returned, scan_image, scan_call, bodyVars, sizeVars, mvVars, fmVars,
                   vtonVars, heightVars, queueVars>>

\* the locals at the start of the second loop: current_x = x_mid, and
\* current_distance = 0 on the one-point path only (lines 224-225, 261)
SecondLoop ==
    [scan_local EXCEPT !.current_x = scan_call.x_mid,
                       !.current_distance = IF scan_call.kind = "single" THEN 0 ELSE @,
                       !.steps = 0]

\* one pass of the loop to the right (lines 213-222, 247-259)
StepRight ==
    /\ scan_pc = "right"
    /\ LET x == scan_local.current_x + 1
           y == scan_call.y_mid + scan_call.slope * (x - scan_call.x_mid)
           single == scan_call.kind = "single"
       IN  IF ~(scan_local.current_distance < max_length)
           THEN /\ scan_local' = SecondLoop
                /\ scan_pc' = "left"
                /\ UNCHANGED scan_globals
           ELSE IF (~single /\ (y < 0 \/ y >= ImageHeight)) \/ x >= ImageWidth
           THEN /\ scan_local' = [SecondLoop EXCEPT !.steps = 0]
                /\ scan_pc' = "left"
                /\ UNCHANGED scan_globals
           ELSE IF IsBackground(scan_image, y, x)
           THEN /\ scan_globals' =
                      [scan_globals EXCEPT
                          !.x_perp2 = x,
                          !.current_distance_down =
                              IF single THEN DistanceSq(0, x - scan_call.x_mid) ELSE @]
                /\ scan_local' = [SecondLoop EXCEPT !.found_right = TRUE]
                /\ scan_pc' = "left"
           ELSE /\ scan_globals' =
                      [scan_globals EXCEPT
                          !.current_distance_down =
                              IF single THEN @
                              ELSE DistanceSq(scan_call.y_mid - y, scan_call.x_mid - x)]
                /\ scan_local' =
                      [scan_local EXCEPT
                          !.current_x = x,
                          !.current_distance = IF single THEN @ + 1 ELSE @,
                          !.steps = @ + 1]
                /\ scan_pc' = "right"
    /\ UNCHANGED <<scan_returned, scan_image, scan_call, scan_result, bodyVars, sizeVars,
                   mvVars, fmVars, vtonVars, heightVars, queueVars>>

\* one pass of the loop to the left (lines 227-236, 262-273)
StepLeft ==
    /\ scan_pc = "left"
    /\ LET x == scan_local.current_x - 1
           y == scan_call.y_mid + scan_call.slope * (x - scan_call.x_mid)
           single == scan_call.kind = "single"
       IN  IF ~(scan_local.current_distance < max_length)
              \/ (~single /\ (y < 0 \/ y >= ImageHeight)) \/ x < 0
           THEN /\ scan_pc' = "finish"
                /\ UNCHANGED <<scan_globals, scan_local>>
           ELSE IF IsBackground(scan_image, y, x)
           THEN /\ scan_globals' =
                      [scan_globals EXCEPT
                          !.x_perp1 = x,
                          !.current_distance_up =
                              IF single THEN DistanceSq(0, scan_call.x_mid - x) ELSE @]
                /\ scan_local' = [scan_local EXCEPT !.found_left = TRUE]
                /\ scan_pc' = "finish"
           ELSE /\ scan_globals' =
                      [scan_globals EXCEPT
                          !.current_distance_up =
                              IF single THEN @
                              ELSE DistanceSq(scan_call.y_mid - y, scan_call.x_mid - x)]
                /\ scan_local' =
                      [scan_local EXCEPT
                          !.current_x = x,
                          !.current_distance = IF single THEN @ + 1 ELSE @,
                          !.steps = @ + 1]
                /\ scan_pc' = "left"
    /\ UNCHANGED <<scan_returned, scan_image, scan_call, scan_result, bodyVars, sizeVars,
                   mvVars, fmVars, vtonVars, heightVars, queueVars>>

\* one pass of the loop of get_height_head (get_height.py lines 49-56): the pixel is
\* read without a test of the image bounds
StepHead ==
    /\ scan_pc = "head"
    /\ scan_local.current_distance < max_length
    /\ LET x == scan_local.current_x - 1
           y == scan_call.y_mid + scan_call.slope * (x - scan_call.x_mid)
       IN  IF ~IndexAccepted(ImageHeight, y) \/ ~IndexAccepted(ImageWidth, x)
           THEN /\ scan_pc' = "raised"
                /\ scan_result' = [raised |-> "IndexError"]
                /\ UNCHANGED <<scan_globals, scan_local>>
           ELSE IF IsBackground(scan_image, y, x)
           THEN /\ scan_globals' = [scan_globals EXCEPT !.x_perp1 = x]
                /\ scan_local' = [scan_local EXCEPT !.found_left = TRUE]
                /\ scan_pc' = "finish"
                /\ UNCHANGED scan_result
           ELSE /\ scan_globals' =
                      [scan_globals EXCEPT
                          !.current_distance_up =
                              DistanceSq(scan_call.y_mid - y, scan_call.x_mid - x)]
                /\ scan_local' = [scan_local EXCEPT !.current_x = x, !.steps = @ + 1]
                /\ scan_pc' = "head"
                /\ UNCHANGED scan_result
    /\ UNCHANGED <<scan_returned, scan_image, scan_call, bodyVars, sizeVars, mvVars, fmVars,
                   vtonVars, heightVars, queueVars>>

\* the globals the rest of the function reads: the distances it adds or returns and
\* the marks it draws the line between
ReadAfterLoops ==
    IF scan_call.fn = "calculate_distance"
    THEN {scan_globals.current_distance_up, scan_globals.current_distance_down,
          scan_globals.x_perp1, scan_globals.x_perp2}
    ELSE {scan_globals.current_distance_up, scan_globals.x_perp1}

\* the radius of the filled circle cv2.circle draws at the middle point (line 278)
circle_radius == 5

\* the scans one run of the scripts may make
MaxScans == 3

\* the pixels the scan colours before it returns. calculate_distance: the filled
\* circle at the middle point (line 278); the line between the marks (line 275) lies
\* inside that circle at this image size. get_height_head: the line from the mark
\* to the middle point (get_height.py line 58), which runs over the pixels scanned;
\* the line mid_point_chest draws (lines 26-27) ends on the middle point too.
DrawnOver ==
    IF scan_call.fn = "calculate_distance"
    THEN {p \in Pixels :
             DistanceSq(p[1] - scan_call.y_mid, p[2] - scan_call.x_mid)
                 <= circle_radius * circle_radius}
    ELSE {p \in Pixels :
             /\ scan_globals.x_perp1 <= p[2] /\ p[2] <= scan_call.x_mid
             /\ p[1] = scan_call.y_mid + scan_call.slope * (p[2] - scan_call.x_mid)}

\* lines 274-280 of body_segments.py, lines 58-59 of get_height.py
FinishScan ==
    /\ scan_pc = "finish"
    /\ IF Unset \in ReadAfterLoops
       THEN /\ scan_pc' = "raised"
            /\ scan_result' = [raised |-> "NameError"]
            /\ UNCHANGED <<scan_image, scan_returned>>
       ELSE LET distance_body_part ==
                    [up   |-> scan_globals.current_distance_up,
                     down |-> IF scan_call.fn = "calculate_distance"
                              THEN scan_globals.current_distance_down ELSE 0]
            IN  /\ scan_pc' = "done"
                /\ scan_result' = distance_body_part
                /\ scan_image' = scan_image \ DrawnOver
                /\ scan_returned' =
                      Append(scan_returned,
                             [call |-> scan_call, image |-> scan_image,
                              result |-> distance_body_part])
    /\ UNCHANGED <<scan_call, scan_local, scan_globals, bodyVars, sizeVars, mvVars, fmVars,
                   vtonVars, heightVars, queueVars>>

\* the next scan of the run: body_segments.py calls calculate_distance for one pair
\* after the other (lines 529-531), and get_height.py, which imports the globals of
\* body_segments.py (line 5), calls get_height_head after them
AnotherScan ==
    /\ scan_pc = "done"
    /\ scan_call.fn = "calculate_distance"
    /\ Len(scan_returned) < MaxScans
    /\ scan_call' \in ScanCalls
    /\ scan_pc' = "ready"
    /\ scan_local' = NoResult
    /\ scan_result' = NoResult
    /\ UNCHANGED <<scan_image, scan_globals, scan_returned, bodyVars, sizeVars, mvVars,
                   fmVars, vtonVars, heightVars, queueVars>>

NextScan == EnterScan \/ StepRight \/ StepLeft \/ StepHead \/ FinishScan \/ AnotherScan

SpecScan == InitScan /\ [][NextScan]_vars

\* ---------------------------------------------------------------- claim C13

\* the scan ran a loop over the mask
RanLoops == scan_call.kind \in {"single", "sloped", "head"}

\* C13: for every silhouette mask, also one without a background pixel along the
\* ray, every width-scan loop ends after at most max_length passes, the run that
\* found no background yields the distance 0, and no exception is raised.
C13_ScansEndWithSentinel ==
    /\ RanLoops => scan_pc # "raised"
    /\ scan_local # NoResult => scan_local.steps <= max_length
    /\ scan_pc = "done" /\ RanLoops =>
           /\ ~scan_local.found_left => scan_result.up = 0
           /\ scan_call.fn = "calculate_distance" /\ ~scan_local.found_right =>
                  scan_result.down = 0

\* ---------------------------------------------------------------- claim C21

\* the horizontal distance from the anchor to the first background pixel to the
\* right of it in row y, 0 when the row has none before the image edge
RightRun(image, y, x_mid) ==
    LET hits == {d \in 1..ImageWidth : x_mid + d < ImageWidth /\ <<y, x_mid + d>> \in image}
    IN  IF hits = {} THEN 0 ELSE CHOOSE d \in hits : \A e \in hits : d <= e

LeftRun(image, y, x_mid) ==
    LET hits == {d \in 1..ImageWidth : x_mid - d >= 0 /\ <<y, x_mid - d>> \in image}
    IN  IF hits = {} THEN 0 ELSE CHOOSE d \in hits : \A e \in hits : d <= e

SinglePointReturns == {i \in 1..Len(scan_returned) : scan_returned[i].call.kind = "single"}

HeightModes == {"auto", "manual", "hybrid"}

MANUAL_HEIGHT_CM == 170

FALLBACK_TO_MANUAL == TRUE

PROMPT_FOR_HEIGHT == TRUE

\* the lines a reader of the prompt may type
Lines == {"y", "n", "abc", "171", "50"}

\* float(line): the number typed, or ValueError
float(line) ==
    CASE line = "171" -> 171 * U
      [] line = "50" -> 50 * U
      [] OTHER -> Raises

\* the longest text waiting on standard input at the call
MaxTyped == 2

\* standard input: the lines waiting, and what input() does once they are used up:
\* it raises EOFError (a closed stream) or does not return (nobody types)
StdinStates ==
    { [lines |-> l, at_end |-> e] :
          l \in UNION {[1..n -> Lines] : n \in 0..MaxTyped}, e \in {"eof", "waits"} }

\* what an estimator may do in the calls of measure_height
MeasureOutcomes == {Raises, PyNone} \cup Cm({171})

InitMeasure ==
    /\ IdleOthersForHeight
    /\ h_pc = "idle"
    /\ h_methods \in [Estimators -> MeasureOutcomes]
    /\ h_index = 0
    /\ heights = <<>>
    /\ h_return = NoResult
    /\ mh_pc = "start"
    /\ mh_mode \in HeightModes
    /\ stdin \in StdinStates
    /\ mh_return = NoResult

\* input() has a line to return, or raises; with neither the call does not return
InputReturns == stdin.lines # <<>>
InputRaises == stdin.lines = <<>> /\ stdin.at_end = "eof"
Consumed == [stdin EXCEPT !.lines = Tail(@)]

\* lines 19-24 and 31-32: the mode is read and the branch entered
MeasureStart ==
    /\ mh_pc = "start"
    /\ IF mh_mode = "manual"
       THEN /\ mh_pc' = "manual"
            /\ UNCHANGED <<h_pc, h_index>>
       ELSE /\ mh_pc' = "auto"
            /\ h_pc' = "loop"
            /\ h_index' = 1
    /\ UNCHANGED <<h_methods, heights, h_return, mh_mode, stdin, mh_return, bodyVars,
                   sizeVars, mvVars, fmVars, vtonVars, scanVars, queueVars>>

\* lines 25-30 and 33-37: get_automatic_height has returned
AfterAutomatic ==
    /\ mh_pc = "auto" /\ h_pc = "done"
    /\ LET valid == h_return # PyNone /\ h_return # 0 /\ validate_height(h_return)
       IN  CASE mh_mode = "auto" /\ ~valid /\ FALLBACK_TO_MANUAL ->
                    mh_pc' = "manual" /\ UNCHANGED mh_return
             [] mh_mode = "auto" /\ ~(~valid /\ FALLBACK_TO_MANUAL) ->
                    mh_pc' = "returned" /\ mh_return' = h_return
             [] mh_mode = "hybrid" /\ valid ->
                    mh_pc' = "confirm" /\ UNCHANGED mh_return
             [] OTHER ->
                    mh_pc' = "manual" /\ UNCHANGED mh_return
    /\ UNCHANGED <<h_pc, h_methods, h_index, heights, h_return, mh_mode, stdin, bodyVars,
                   sizeVars, mvVars, fmVars, vtonVars, scanVars, queueVars>>

\* one pass of `while True` in get_manual_height (lines 216-227): the bare except
\* takes EOFError and ValueError alike and the loop goes round
ManualPass ==
    /\ mh_pc = "manual"
    /\ IF ~PROMPT_FOR_HEIGHT
       THEN /\ mh_pc' = "returned"
            /\ mh_return' = MANUAL_HEIGHT_CM * U
            /\ UNCHANGED stdin
       ELSE \/ /\ InputReturns
               /\ stdin' = Consumed
               /\ LET height == float(Head(stdin.lines))
                  IN  IF height # Raises /\ validate_height(height)
                      THEN mh_pc' = "returned" /\ mh_return' = height
                      ELSE UNCHANGED <<mh_pc, mh_return>>
            \/ /\ InputRaises
               /\ UNCHANGED <<mh_pc, mh_return, stdin>>
    /\ UNCHANGED <<h_pc, h_methods, h_index, heights, h_return, mh_mode, bodyVars, sizeVars,
                   mvVars, fmVars, vtonVars, scanVars, queueVars>>

\* confirm_height (lines 229-246): its input() stands outside any try
ConfirmHeight ==
    /\ mh_pc = "confirm"
    /\ \/ /\ InputReturns
          /\ stdin' = Consumed
          /\ LET response == Head(stdin.lines)
                 height == float(response)
             IN  CASE response = "y" -> mh_pc' = "returned" /\ mh_return' = h_return
                   [] response = "n" -> mh_pc' = "manual" /\ UNCHANGED mh_return
                   [] OTHER ->
                          /\ mh_pc' = "returned"
                          /\ mh_return' = IF height # Raises /\ validate_height(height)
                                          THEN height ELSE h_return
       \/ /\ InputRaises
          /\ mh_pc' = "raised"
          /\ UNCHANGED <<mh_return, stdin>>
    /\ UNCHANGED <<h_pc, h_methods, h_index, heights, h_return, mh_mode, bodyVars, sizeVars,
                   mvVars, fmVars, vtonVars, scanVars, queueVars>>

NextMeasure ==
    MeasureStart \/ CallEstimator \/ ReturnMedian \/ AfterAutomatic \/ ManualPass
        \/ ConfirmHeight

SpecMeasure == InitMeasure /\ [][NextMeasure]_vars

\* ---------------------------------------------------------------- claim C22

\* the call stands at a statement that reads standard input
AtPrompt == (mh_pc = "manual" /\ PROMPT_FOR_HEIGHT) \/ mh_pc = "confirm"

\* automatic detection ran and gave no valid height
NoValidAutomatic ==
    /\ mh_mode # "manual" /\ h_pc = "done"
    /\ (h_return = PyNone \/ ~validate_height(h_return))

\* C22: measure_height never reads interactive input; when automatic detection
\* gives no valid height, the call returns None or the configured manual height.
C22_ReturnsWithoutInput ==
    /\ ~AtPrompt
    /\ mh_pc = "returned" /\ NoValidAutomatic =>
           mh_return \in {PyNone, MANUAL_HEIGHT_CM * U}

\* ------------------------------ MeasurementValidator: the corrections log

\* the keys whose returned value differs from the value passed in
ChangedKeys == {key \in MVKeys : mv_first.corrected[key] # mv_measurements[key]}

\* C23: every value validate_all_measurements returns different from its input has
\* exactly one entry in corrections_made, whose after value is the value returned;
\* this includes the values validate_relationships changes.
C23_EveryChangeLogged ==
    (mv_pc = "once" /\ ~mv_first.raised) =>
        /\ ChangedKeys \subseteq mv_first.corrections_made
        /\ \A key \in mv_first.corrections_made :
               mv_first.each[key] = mv_first.corrected[key]

\* ------------------------- MeasurementValidator: the order of the relationships

\* the three circumferences are in the dict validate_relationships is given
AllThree ==
    /\ mv_pc = "once" /\ ~mv_first.raised
    /\ \A key \in {"Chest Circumference", "Waist Circumference", "Hip Circumference"} :
           Has(mv_first.each, key)

ChestIn == mv_first.each["Chest Circumference"]
WaistIn == mv_first.each["Waist Circumference"]
HipIn == mv_first.each["Hip Circumference"]
WaistOut == mv_first.corrected["Waist Circumference"]
ChestOut == mv_first.corrected["Chest Circumference"]

\* C24 as stated: the check against the chest is made before the check against the
\* hip, that is on the waist as it came in, and the final waist is a function of
\* the chest, waist and hip that came in.
C24_ChestCheckedBeforeHip ==
    AllThree =>
        /\ ChestOut = IF ChestWaistOff(ChestIn, WaistIn) THEN (WaistIn * 13) \div 10
                      ELSE ChestIn
        /\ WaistOut = IF WaistHipOff(WaistIn, HipIn) THEN (HipIn * 4) \div 5 ELSE WaistIn

\* C24 amended: the waist is checked against the hip first and is hip x 0.80 when
\* waist / hip lies outside [0.65, 0.95], otherwise unchanged, whatever the chest;
\* the chest is then checked against that final waist and is final waist x 1.30
\* when chest / waist lies outside [1.15, 1.45]; no check against the chest
\* changes the waist.
C24_HipCheckedBeforeChest ==
    AllThree =>
        /\ WaistOut = IF WaistHipOff(WaistIn, HipIn) THEN (HipIn * 4) \div 5 ELSE WaistIn
        /\ ChestOut = IF ChestWaistOff(ChestIn, WaistOut) THEN (WaistOut * 13) \div 10
                      ELSE ChestIn

\* chest 85, waist 64.6 and hip 110.5 at height 170: chest / waist = 1.32 passes as
\* it came in, the hip rule moves the waist to 88.4, and the chest, now 0.96 of the
\* waist, becomes 114.92
C24_Witness ==
    /\ AllThree
    /\ mv_height = 170
    /\ ~ChestWaistOff(ChestIn, WaistIn)
    /\ WaistHipOff(WaistIn, HipIn)
    /\ WaistOut = (HipIn * 4) \div 5
    /\ ChestOut = (WaistOut * 13) \div 10
    /\ ChestOut # ChestIn

\* ------------- queue_manager.py, the API routes and the worker threads

\* Config.MAX_QUEUE_SIZE (config.py line 26, 100 unless the environment sets it)
MAX_QUEUE_SIZE == 2

\* the jobs the routes create in one run
MaxJobs == 3

JobTypes == {"measurement", "clothing_measurement", "clothing_measurement_auth", "scraping"}

Workers == {"measurement", "clothing", "scraping"}

\* the threads start_workers of app.py starts (lines 245-273)
AppWorkers == {"measurement", "clothing"}

\* the job types a worker thread passes to its process function
Handles(w, type) ==
    CASE w = "measurement" -> type = "measurement"
      [] w = "clothing" -> type \in {"clothing_measurement", "clothing_measurement_auth"}
      [] w = "scraping" -> type = "scraping"

\* QueueManager.add_job: put(job_data, block=False), False when the queue is full
add_job(q, job_data) ==
    IF Len(q) < MAX_QUEUE_SIZE
    THEN [ok |-> TRUE, queue |-> Append(q, job_data)]
    ELSE [ok |-> FALSE, queue |-> q]

InitQueue ==
    /\ IdleBody /\ IdleSize /\ IdleMV /\ IdleFM /\ IdleVton /\ IdleScan /\ IdleHeight
    /\ job_queue = <<>>
    /\ next_job = 0
    /\ accepted = {}
    /\ started \in {AppWorkers, Workers}
    /\ w_pc = [w \in Workers |-> IF w \in started THEN "loop" ELSE "stopped"]
    /\ w_job = [w \in Workers |-> NoResult]
    /\ processed = {}
    /\ status_log = [n \in 1..MaxJobs |-> <<>>]

otherVars == <<bodyVars, sizeVars, mvVars, fmVars, vtonVars, scanVars, heightVars>>

\* a route builds job_data and calls add_job; a route that tests the result answers
\* 503 when it is False, the others answer 202 whatever it is
Route(type, tests_result) ==
    /\ next_job < MaxJobs
    /\ LET job_data == [job_id |-> next_job + 1, type |-> type]
           put == add_job(job_queue, job_data)
       IN  /\ job_queue' = put.queue
           /\ accepted' = IF put.ok \/ ~tests_result THEN accepted \cup {job_data}
                          ELSE accepted
    /\ next_job' = next_job + 1
    /\ UNCHANGED <<started, w_pc, w_job, processed, status_log, otherVars>>

\* api/measurements/routes.py lines 120-128 and 214-222
MeasurementRoute == Route("measurement", TRUE)

\* api/scraping/routes.py lines 72-79 and 134-135
ScrapingRoute == Route("scraping", TRUE)

\* api/clothing/routes.py lines 196-214, 265-272 and 348-356
ClothingRoute ==
    \E type \in {"clothing_measurement", "clothing_measurement_auth"} : Route(type, FALSE)

\* `queue_size = queue_manager.get_queue_size()` and `if queue_size > 0`
WorkerCheck(w) ==
    /\ w_pc[w] = "loop"
    /\ Len(job_queue) > 0
    /\ w_pc' = [w_pc EXCEPT ![w] = "get"]
    /\ UNCHANGED <<job_queue, next_job, accepted, started, w_job, processed, status_log,
                   otherVars>>

\* `job = queue_manager.get_job(timeout=0.5)`: the oldest job, or None when the
\* queue stayed empty
WorkerGet(w) ==
    /\ w_pc[w] = "get"
    /\ IF job_queue # <<>>
       THEN /\ w_job' = [w_job EXCEPT ![w] = Head(job_queue)]
            /\ job_queue' = Tail(job_queue)
            /\ w_pc' = [w_pc EXCEPT ![w] = "got"]
       ELSE /\ w_pc' = [w_pc EXCEPT ![w] = "loop"]
            /\ UNCHANGED <<w_job, job_queue>>
    /\ UNCHANGED <<next_job, accepted, started, processed, status_log, otherVars>>

\* the test of job_type: the process function is called, or the job goes back with
\* add_job, whose result is not looked at
WorkerDispatch(w) ==
    /\ w_pc[w] = "got"
    /\ IF Handles(w, w_job[w].type)
       THEN /\ w_pc' = [w_pc EXCEPT ![w] = "process"]
            /\ processed' = processed \cup {[job |-> w_job[w], worker |-> w]}
            /\ UNCHANGED <<job_queue, w_job>>
       ELSE /\ job_queue' = add_job(job_queue, w_job[w]).queue
            /\ w_job' = [w_job EXCEPT ![w] = NoResult]
            /\ w_pc' = [w_pc EXCEPT ![w] = "loop"]
            /\ UNCHANGED processed
    /\ UNCHANGED <<next_job, accepted, started, status_log, otherVars>>

Written(log, w, status) == [log EXCEPT ![w_job[w].job_id] = Append(@, status)]

\* the first statement in the try of each process function: status 'processing'
ProcessStart(w) ==
    /\ w_pc[w] = "process"
    /\ status_log' = Written(status_log, w, "processing")
    /\ w_pc' = [w_pc EXCEPT ![w] = "running"]
    /\ UNCHANGED <<job_queue, next_job, accepted, started, w_job, processed, otherVars>>

\* the statuses a process function writes at its end: 'rejected' is written by
\* process_clothing_job alone (clothing_worker.py line 1181)
EndStatuses(w) ==
    IF w = "clothing" THEN {"completed", "failed", "rejected"} ELSE {"completed", "failed"}

\* the rest of the process function up to its last status update; process_scraping_job
\* goes on after 'completed' (scraping_worker.py lines 136-152)
ProcessEnd(w) ==
    /\ w_pc[w] = "running"
    /\ \E status \in EndStatuses(w) :
           /\ status_log' = Written(status_log, w, status)
           /\ IF w = "scraping" /\ status = "completed"
              THEN /\ w_pc' = [w_pc EXCEPT ![w] = "import"]
                   /\ UNCHANGED w_job
              ELSE /\ w_pc' = [w_pc EXCEPT ![w] = "loop"]
                   /\ w_job' = [w_job EXCEPT ![w] = NoResult]
    /\ UNCHANGED <<job_queue, next_job, accepted, started, processed, otherVars>>

\* process_scraping_job after 'completed': save_scraping_to_firestore returns an
\* import id and update_job_status writes 'completed' again (lines 139-149), or it
\* returns none or raises and nothing more is written
SaveImport(w) ==
    /\ w_pc[w] = "import"
    /\ \/ status_log' = Written(status_log, w, "completed")
       \/ UNCHANGED status_log
    /\ w_pc' = [w_pc EXCEPT ![w] = "loop"]
    /\ w_job' = [w_job EXCEPT ![w] = NoResult]
    /\ UNCHANGED <<job_queue, next_job, accepted, started, processed, otherVars>>

WorkerStep(w) ==
    WorkerCheck(w) \/ WorkerGet(w) \/ WorkerDispatch(w) \/ ProcessStart(w) \/ ProcessEnd(w)
        \/ SaveImport(w)

NextQueue ==
    MeasurementRoute \/ ScrapingRoute \/ ClothingRoute \/ \E w \in Workers : WorkerStep(w)

SpecQueue == InitQueue /\ [][NextQueue]_vars

\* get_job returning a job
TakeJob(w) == WorkerGet(w) /\ job_queue # <<>>

\* every started thread keeps running, and a thread whose get_job finds a job
\* waiting again and again, or is given one while it waits, at some time takes one
SpecQueueFair ==
    SpecQueue /\ \A w \in Workers : SF_vars(WorkerStep(w)) /\ SF_vars(TakeJob(w))

\* ---------------------------------------------------------------- claim C25

InQueue(job_data) == \E i \in 1..Len(job_queue) : job_queue[i] = job_data
HeldByWorker(job_data) == \E w \in Workers : w_job[w] = job_data
Processed(job_data) == \E p \in processed : p.job = job_data

\* C25: a job a route answered 202 for, also one a worker took and put back, is from
\* then on in the queue, held by a worker, or has been processed.
C25_NoAcceptedJobLost ==
    \A job_data \in accepted :
        InQueue(job_data) \/ HeldByWorker(job_data) \/ Processed(job_data)

\* ---------------------------------------------------------------- claim C26

\* C26: with the workers app.py starts scheduled fairly, every job placed on the
\* queue, whatever its type, is eventually passed to the process function of a
\* worker that handles its type.
C26_EveryQueuedJobProcessed ==
    \A n \in 1..MaxJobs : \A type \in JobTypes :
        (started = AppWorkers /\ InQueue([job_id |-> n, type |-> type]))
            ~> (\E p \in processed :
                    /\ p.job = [job_id |-> n, type |-> type]
                    /\ Handles(p.worker, type))

\* ---------------------------------------------------------------- claim C27

Terminal == {"completed", "failed", "rejected"}

\* C27: the status updates written for a job a worker processes are 'processing'
\* and then exactly one terminal status, and none after that one.
C27_ProcessingThenOneTerminal ==
    \A n \in 1..MaxJobs :
        LET log == status_log[n]
        IN  /\ Len(log) <= 2
            /\ Len(log) >= 1 => log[1] = "processing"
            /\ Len(log) = 2 => log[2] \in Terminal


\* ---------------------------------------------------------------- claim C28

\* two returned scans of the same anchor pair over the same mask
SameScan(i, j) ==
    /\ scan_returned[i].call = scan_returned[j].call
    /\ scan_returned[i].image = scan_returned[j].image

\* C28: the distance calculate_distance returns for an anchor pair depends on the
\* pair and the mask only: two scans of one run that were given the same pair and
\* the same mask return the same distance, whatever was scanned before them.
C28_ResultDependsOnPairAndMask ==
    \A i, j \in 1..Len(scan_returned) :
        SameScan(i, j) => scan_returned[i].result = scan_returned[j].result


\* ---------------------------------------------------------------- claim C29

TopKeys ==
    [chest |-> "Chest Circumference", waist |-> "Waist Circumference",
     shoulder |-> "Shoulder Width", length |-> "Total Length"]

\* every measurement of the top lies inside the chart range of the label `size`
AllInsideLabel(measurements, size) ==
    \A t \in DOMAIN TopKeys :
        LET value == measurements[TopKeys[t]]
            pair == FITMATCH_CLOTHING_STANDARDS["top"][size][t]
        IN  value # Absent /\ pair[1] * U <= value /\ value <= pair[2] * U

\* 0.65 <= waist / chest <= 0.95
RatioPlausible(measurements) ==
    /\ 20 * measurements["Waist Circumference"] >= 13 * measurements["Chest Circumference"]
    /\ 20 * measurements["Waist Circumference"] <= 19 * measurements["Chest Circumference"]

FitsOneLabel ==
    /\ clothing_type = "top"
    /\ \E i \in 1..Len(SizeOrder5) : AllInsideLabel(raw_measurements, SizeOrder5[i])
    /\ RatioPlausible(raw_measurements)

\* C29: for a top whose chest, waist, shoulder and length all lie inside the chart
\* range of one size label, with waist / chest within [0.65, 0.95],
\* _detect_measurement_errors reports no error, and the call returns after the
\* first analysis with the measurements unchanged and an empty history.
C29_ConsistentTopPassesUntouched ==
    (FitsOneLabel /\ fm_pc = "returned") =>
        /\ detect_measurement_errors(raw_measurements, clothing_type) = <<>>
        /\ rounds = 1
        /\ fm_result.measurements = raw_measurements
        /\ fm_result.reprocessing_history = <<>>


\* ---------------------------------------------------------------- claim C30

\* the record an attempt has just appended to reprocessing_history
NewRecord == reprocessing_history'[Len(reprocessing_history')]

\* the corrections the attempt appended to error_corrections
AppendedNow == Len(error_corrections') - Len(error_corrections)

\* C30: the corrections_applied of every record of reprocessing_history are
\* corrections appended to error_corrections during the attempt that wrote the
\* record: the slice never reaches back into the corrections of an earlier attempt.
C30_RecordListsOwnCorrections ==
    [][Len(reprocessing_history') > Len(reprocessing_history) =>
           Len(NewRecord.corrections_applied) <= AppendedNow]_vars

====
